---- MODULE Spec2Model ----
(***************************************************************************)
(* Discrete-event model of the histopathology laboratory simulation        *)
(* (dighosp_des).  One action is one pop of the event calendar: the        *)
(* component at the head of the calendar is resumed and runs up to its     *)
(* next suspension (hold, request, from_store) or to the end of its body.  *)
(* Simulated time is counted in ticks of 0.1 h.                            *)
(***************************************************************************)
EXTENDS Integers, Sequences, FiniteSets, TLC

VARIABLES
    cfg,          \* the Config the Model was built from (never changes)
    now,          \* env.now(), in ticks
    evl,          \* the event calendar: <<[t, a]>> ordered by (t, insertion)
    capacity,     \* Resource._capacity
    nclaimed,     \* Resource._claimed_quantity
    claims,       \* Component._claims: per actor, <<[r, q]>> in claim order
    requesters,   \* Resource._requesters: <<[a, prio]>> sorted by prio, FIFO
    requests,     \* Component._requests: per actor, <<[r, q, prio]>> pending
    capLog,       \* Resource.capacity monitor: <<[t, x]>>
    schedPos,     \* per ResourceScheduler, the [day, slot] it executes next
    ent,          \* the Specimen / Block / Slide / Batch components
    nextId,       \* the next unused entity id
    pc,           \* per entity, the label its process resumes at
    loc,          \* per entity, the locals of the running body
    store,        \* per process, in_queue: <<[e, prio]>>
    waiting,      \* per process, whether it waits in from_store(in_queue)
    pitem,        \* per process, from_store_item() (0: none)
    ploc,         \* per process, the locals of its loop
    wips,         \* the Wips level monitors' current values
    agPos,        \* per ArrivalGenerator, the index of the rate it reads next
    honors        \* the requests honored by the last event, each with the
                  \* resource state it was honored in

\* The job layer of api.py: what lives outside a replication's Model.
VARIABLES
    sim_jobs,     \* the job's document in client['sim']['sim_jobs']
    fs,           \* GridFS: the files put so far; a file's id is its index
    redis,        \* the Redis queue: waiting job ids and every job's status
    worker        \* per RQ worker, the job it performs and that job's locals

jobVars == <<sim_jobs, fs, redis, worker>>

vars == <<cfg, now, evl, capacity, nclaimed, claims, requesters, requests,
          capLog, schedPos, ent, nextId, pc, loc, store, waiting, pitem,
          ploc, wips, agPos, honors, sim_jobs, fs, redis, worker>>

(***************************************************************************)
(* Priorities and intervals.                                               *)
(***************************************************************************)
ROUTINE == 0
CANCER == -1
PRIORITY == -2
URGENT == -3
\* request() without a priority enters the requesters at the tail: it
\* sorts behind every explicit Priority.
NoPriority == 1

\* RESOURCE_ALLOCATION_INTERVAL_HOURS (0.5 h) in ticks.
SlotTicks == 5
\* ARR_RATE_INTERVAL_HOURS (1 h) in ticks.
HourTicks == 2 * SlotTicks
DayTicks == 48 * SlotTicks
WeekTicks == 7 * DayTicks

\* The fields of the Resources dataclass, in declaration order.
ResourceOrder ==
    << "booking_in_staff", "bms", "cut_up_assistant", "processing_room_staff",
       "microtomy_staff", "staining_staff", "scanning_staff", "qc_staff",
       "histopathologist", "bone_station", "processing_machine",
       "staining_machine", "coverslip_machine", "scanning_machine_regular",
       "scanning_machine_megas" >>

Resources == { ResourceOrder[i] : i \in 1..Len(ResourceOrder) }

\* sim.Resource(name=..., env=env): no capacity argument, salabim's default.
DefaultCapacity == 1

(***************************************************************************)
(* Actors.                                                                 *)
(***************************************************************************)
SchedActor(r) == [k |-> "sched", id |-> 0, name |-> r]

EntActor(e) == [k |-> "ent", id |-> e, name |-> ""]

ProcActor(n) == [k |-> "proc", id |-> 0, name |-> n]

\* The bound on the number of Specimen, Block, Slide and Batch components.
MaxEnt == 40

EntIds == 1..MaxEnt

\* The replications of the job and the RQ workers that perform them.
NumReps == 3
NumWorkers == 2
Reps == 0..(NumReps - 1)
RqWorkers == 1..NumWorkers

\* env.processes, in the order register_processes creates them.
ProcOrder ==
    << "arrive_reception", "booking_in",
       "batcher.reception_to_cutup", "reception_to_cutup",
       "cutup_start", "cutup_bms", "cutup_pool", "cutup_large",
       "batcher.cutup_bms_to_processing", "cutup_bms_to_processing",
       "batcher.cutup_pool_to_processing", "cutup_pool_to_processing",
       "batcher.cutup_large_to_processing", "cutup_large_to_processing",
       "processing_start", "decalc_bone_station", "decalc_oven",
       "processing_assign_queue", "processing_urgents", "processing_smalls",
       "processing_larges", "processing_megas", "embed_and_trim",
       "post_processing",
       "batcher.decalc_bone_station", "batcher.processing_urgents",
       "batcher.processing_smalls", "batcher.processing_larges",
       "batcher.processing_megas", "collate.processing",
       "batcher.processing_to_microtomy", "processing_to_microtomy",
       "microtomy", "batcher.microtomy_to_staining", "microtomy_to_staining",
       "staining_start", "staining_regular", "staining_megas", "post_staining",
       "batcher.staining_regular", "batcher.staining_megas",
       "collate.staining.slides", "collate.staining.blocks",
       "batcher.staining_to_labelling", "staining_to_labelling",
       "labelling", "batcher.labelling_to_scanning", "labelling_to_scanning",
       "scanning_start", "scanning_regular", "scanning_megas", "post_scanning",
       "batcher.scanning_regular", "batcher.scanning_megas",
       "collate.scanning.slides", "collate.scanning.blocks",
       "batcher.scanning_to_qc", "scanning_to_qc",
       "qc", "assign_histopath", "report" >>

ProcNames == { ProcOrder[i] : i \in 1..Len(ProcOrder) }

\* DeliveryProcess.new(name, runner, durations, out_process)
DeliveryTable ==
    [ reception_to_cutup |->
          [runner |-> "booking_in_staff", leg |-> "reception_cutup",
           out |-> "cutup_start"],
      cutup_bms_to_processing |->
          [runner |-> "bms", leg |-> "cutup_processing",
           out |-> "processing_start"],
      cutup_pool_to_processing |->
          [runner |-> "cut_up_assistant", leg |-> "cutup_processing",
           out |-> "processing_start"],
      cutup_large_to_processing |->
          [runner |-> "cut_up_assistant", leg |-> "cutup_processing",
           out |-> "processing_start"],
      processing_to_microtomy |->
          [runner |-> "processing_room_staff", leg |-> "processing_microtomy",
           out |-> "microtomy"],
      microtomy_to_staining |->
          [runner |-> "microtomy_staff", leg |-> "microtomy_staining",
           out |-> "staining_start"],
      staining_to_labelling |->
          [runner |-> "microtomy_staff", leg |-> "staining_labelling",
           out |-> "labelling"],
      labelling_to_scanning |->
          [runner |-> "microtomy_staff", leg |-> "labelling_scanning",
           out |-> "scanning_start"],
      scanning_to_qc |->
          [runner |-> "scanning_staff", leg |-> "scanning_qc",
           out |-> "qc"] ]

DeliveryNames == DOMAIN DeliveryTable

\* BatchingProcess.new(name, batch_size, out_process)
BatcherTable ==
    [ n \in { "batcher.reception_to_cutup", "batcher.cutup_bms_to_processing",
              "batcher.cutup_pool_to_processing",
              "batcher.cutup_large_to_processing",
              "batcher.decalc_bone_station", "batcher.processing_urgents",
              "batcher.processing_smalls", "batcher.processing_larges",
              "batcher.processing_megas", "batcher.processing_to_microtomy",
              "batcher.microtomy_to_staining", "batcher.staining_regular",
              "batcher.staining_megas", "batcher.staining_to_labelling",
              "batcher.labelling_to_scanning", "batcher.scanning_regular",
              "batcher.scanning_megas", "batcher.scanning_to_qc" } |->
      CASE n = "batcher.reception_to_cutup" ->
               [size |-> "deliver_reception_to_cut_up", out |-> "reception_to_cutup"]
        [] n = "batcher.cutup_bms_to_processing" ->
               [size |-> "deliver_cut_up_to_processing", out |-> "cutup_bms_to_processing"]
        [] n = "batcher.cutup_pool_to_processing" ->
               [size |-> "deliver_cut_up_to_processing", out |-> "cutup_pool_to_processing"]
        [] n = "batcher.cutup_large_to_processing" ->
               [size |-> "deliver_cut_up_to_processing", out |-> "cutup_large_to_processing"]
        [] n = "batcher.decalc_bone_station" ->
               [size |-> "bone_station", out |-> "decalc_bone_station"]
        [] n = "batcher.processing_urgents" ->
               [size |-> "processing_regular", out |-> "processing_urgents"]
        [] n = "batcher.processing_smalls" ->
               [size |-> "processing_regular", out |-> "processing_smalls"]
        [] n = "batcher.processing_larges" ->
               [size |-> "processing_regular", out |-> "processing_larges"]
        [] n = "batcher.processing_megas" ->
               [size |-> "processing_megas", out |-> "processing_megas"]
        [] n = "batcher.processing_to_microtomy" ->
               [size |-> "deliver_processing_to_microtomy", out |-> "processing_to_microtomy"]
        [] n = "batcher.microtomy_to_staining" ->
               [size |-> "deliver_microtomy_to_staining", out |-> "microtomy_to_staining"]
        [] n = "batcher.staining_regular" ->
               [size |-> "staining_regular", out |-> "staining_regular"]
        [] n = "batcher.staining_megas" ->
               [size |-> "staining_megas", out |-> "staining_megas"]
        [] n = "batcher.staining_to_labelling" ->
               [size |-> "deliver_staining_to_labelling", out |-> "staining_to_labelling"]
        [] n = "batcher.labelling_to_scanning" ->
               [size |-> "deliver_labelling_to_scanning", out |-> "labelling_to_scanning"]
        [] n = "batcher.scanning_regular" ->
               [size |-> "digital_scanning_regular", out |-> "scanning_regular"]
        [] n = "batcher.scanning_megas" ->
               [size |-> "digital_scanning_megas", out |-> "scanning_megas"]
        [] OTHER ->
               [size |-> "deliver_scanning_to_qc", out |-> "scanning_to_qc"] ]

BatcherNames == DOMAIN BatcherTable

\* CollationProcess.new(name, count_attr, out_process)
CollatorTable ==
    [ n \in { "collate.processing", "collate.staining.slides",
              "collate.staining.blocks", "collate.scanning.slides",
              "collate.scanning.blocks" } |->
      CASE n = "collate.processing" ->
               [count_attr |-> "num_blocks", out |-> "post_processing"]
        [] n = "collate.staining.slides" ->
               [count_attr |-> "num_slides", out |-> "collate.staining.blocks"]
        [] n = "collate.staining.blocks" ->
               [count_attr |-> "num_blocks", out |-> "post_staining"]
        [] n = "collate.scanning.slides" ->
               [count_attr |-> "num_slides", out |-> "collate.scanning.blocks"]
        [] OTHER ->
               [count_attr |-> "num_blocks", out |-> "post_scanning"] ]

CollatorNames == DOMAIN CollatorTable

\* Process.new(env, in_type, fn): the workers, named after their body.
WorkerNames == ProcNames \ (DeliveryNames \cup BatcherNames \cup CollatorNames)

\* The components that can claim resources: the entities and the
\* DeliveryProcess components (which seize their runner themselves).
Actors ==
    { EntActor(e) : e \in EntIds } \cup { ProcActor(n) : n \in DeliveryNames }

(***************************************************************************)
(* The world: every mutable part of the Model, as one record, so that the  *)
(* calls a component makes between two suspensions compose as functions.   *)
(***************************************************************************)
World ==
    [ now |-> now, evl |-> evl, capacity |-> capacity, nclaimed |-> nclaimed,
      claims |-> claims, requesters |-> requesters, requests |-> requests,
      capLog |-> capLog, schedPos |-> schedPos, ent |-> ent,
      nextId |-> nextId, pc |-> pc, loc |-> loc, store |-> store,
      waiting |-> waiting, pitem |-> pitem, ploc |-> ploc, wips |-> wips,
      agPos |-> agPos, honors |-> honors ]

Commit(W) ==
    /\ now' = W.now
    /\ evl' = W.evl
    /\ capacity' = W.capacity
    /\ nclaimed' = W.nclaimed
    /\ claims' = W.claims
    /\ requesters' = W.requesters
    /\ requests' = W.requests
    /\ capLog' = W.capLog
    /\ schedPos' = W.schedPos
    /\ ent' = W.ent
    /\ nextId' = W.nextId
    /\ pc' = W.pc
    /\ loc' = W.loc
    /\ store' = W.store
    /\ waiting' = W.waiting
    /\ pitem' = W.pitem
    /\ ploc' = W.ploc
    /\ wips' = W.wips
    /\ agPos' = W.agPos
    /\ honors' = W.honors
    /\ cfg' = cfg
    /\ UNCHANGED jobVars

(***************************************************************************)
(* Event calendar.                                                         *)
(***************************************************************************)
\* Position of a new event at time t: behind every event with time <= t.
RECURSIVE EvPos(_, _, _)
EvPos(q, t, i) ==
    IF i > Len(q) THEN i
    ELSE IF q[i].t > t THEN i
    ELSE EvPos(q, t, i + 1)

InsertAt(q, i, x) == SubSeq(q, 1, i - 1) \o <<x>> \o SubSeq(q, i, Len(q))

\* Component._reschedule(t, priority=0, urgent=False)
Schedule(W, a, t) ==
    [W EXCEPT !.evl = InsertAt(@, EvPos(@, t, 1), [t |-> t, a |-> a])]

\* Component.hold(d)
Hold(W, a, d) == Schedule(W, a, W.now + d)

\* A run that processes the head event whatever its time.
CanPopAny == evl # <<>>

\* Environment.run(duration=sim_length): the head event is processed while
\* its time is within the horizon.
CanPop == evl # <<>> /\ Head(evl).t <= cfg.sim_ticks

Popped ==
    [World EXCEPT !.now = Head(evl).t, !.evl = Tail(evl), !.honors = <<>>]

(***************************************************************************)
(* Resources: request, honor, release, set_capacity.                       *)
(***************************************************************************)
Free(W, r) == W.capacity[r] - W.nclaimed[r]

\* A grant rule that compares the request with the whole capacity.
CanHonorByCapacity(W, a) ==
    /\ W.requests[a] # <<>>
    /\ \A i \in 1..Len(W.requests[a]) :
          W.requests[a][i].q <= W.capacity[W.requests[a][i].r]

\* Component._tryrequest: every requested resource must have the units.
CanHonor(W, a) ==
    /\ W.requests[a] # <<>>
    /\ \A i \in 1..Len(W.requests[a]) :
          W.requests[a][i].q <= Free(W, W.requests[a][i].r)

RECURSIVE SeqSum(_)
SeqSum(s) == IF s = <<>> THEN 0 ELSE Head(s).q + SeqSum(Tail(s))

Remove(q, a) == SelectSeq(q, LAMBDA x : x.a # a)

HasClaim(W, a, r) == \E i \in 1..Len(W.claims[a]) : W.claims[a][i].r = r

Held(W, a, r) ==
    SeqSum(SelectSeq(W.claims[a], LAMBDA c : c.r = r))

\* A claim that is not counted in the resource's claimed quantity.
ClaimOneNoCount(W, a, rq) ==
    [W EXCEPT
       !.claims[a] =
           IF \E i \in 1..Len(@) : @[i].r = rq.r
           THEN [i \in 1..Len(@) |->
                    IF @[i].r = rq.r THEN [r |-> rq.r, q |-> @[i].q + rq.q]
                    ELSE @[i]]
           ELSE Append(@, [r |-> rq.r, q |-> rq.q]),
       !.requesters[rq.r] = SelectSeq(@, LAMBDA x : x.a # a)]

\* The claiming half of Component._tryrequest for one resource.
ClaimOne(W, a, rq) ==
    [W EXCEPT
       !.nclaimed[rq.r] = @ + rq.q,
       !.claims[a] =
           IF HasClaim(W, a, rq.r)
           THEN [i \in 1..Len(@) |->
                    IF @[i].r = rq.r THEN [r |-> rq.r, q |-> @[i].q + rq.q]
                    ELSE @[i]]
           ELSE Append(@, [r |-> rq.r, q |-> rq.q]),
       !.requesters[rq.r] = Remove(@, a)]

\* A grant that claims the first resource of the request only.
ClaimFirst(W, a, rqs) ==
    IF rqs = <<>> THEN W ELSE ClaimOne(W, a, Head(rqs))

RECURSIVE ClaimEach(_, _, _)
ClaimEach(W, a, rqs) ==
    IF rqs = <<>> THEN W
    ELSE ClaimEach(ClaimOne(W, a, Head(rqs)), a, Tail(rqs))

\* Component._tryrequest when honored: claim everything requested, leave
\* every requesters queue, and reschedule for now.
Honor(W, a) ==
    LET W1 == ClaimEach(W, a, W.requests[a])
        W2 == [W1 EXCEPT
                  !.requests[a] = <<>>,
                  !.honors = Append(@, [a |-> a, rqs |-> W.requests[a],
                                        capacity |-> W.capacity,
                                        nclaimed |-> W.nclaimed,
                                        requesters |-> W.requesters,
                                        requests |-> W.requests])]
    IN  Schedule(W2, a, W.now)

TryRequest(W, a) == IF CanHonor(W, a) THEN Honor(W, a) ELSE W

\* A walk of the requesters that stops at the first one that cannot be
\* honored.
RECURSIVE TryEachInOrder(_, _, _)
TryEachInOrder(W, r, as) ==
    IF as = <<>> THEN W
    ELSE IF ~CanHonor(W, Head(as).a) THEN W
    ELSE TryEachInOrder(TryRequest(W, Head(as).a), r, Tail(as))

\* Resource._tryrequest: walk the requesters in queue order and let each
\* try its whole request; stop once no unit is free.
RECURSIVE TryEach(_, _, _)
TryEach(W, r, as) ==
    IF as = <<>> THEN W
    ELSE IF Free(W, r) < 1 THEN W
    ELSE TryEach(TryRequest(W, Head(as).a), r, Tail(as))

ResTryRequest(W, r) == TryEach(W, r, W.requesters[r])

\* Level-monitor tally: a second tally at the same time overwrites.
Tally(log, t, x) ==
    IF log # <<>> /\ log[Len(log)].t = t
    THEN [log EXCEPT ![Len(log)] = [t |-> t, x |-> x]]
    ELSE Append(log, [t |-> t, x |-> x])

\* Resource.set_capacity(cap)
SetCapacity(W, r, cap) ==
    ResTryRequest(
        [W EXCEPT !.capacity[r] = cap,
                  !.capLog[r] = Tally(@, W.now, cap)], r)

\* A queue position that ignores the priority: always the tail.
TailPos(q, p, i) == Len(q) + 1

\* Queue.add_sorted(component, priority): before the first member whose
\* priority is strictly greater.
RECURSIVE SortedPos(_, _, _)
SortedPos(q, p, i) ==
    IF i > Len(q) THEN i
    ELSE IF q[i].prio > p THEN i
    ELSE SortedPos(q, p, i + 1)

\* Component.request((r, q, prio), ...): enter every requesters queue, then
\* try at once; an honored request still yields (rescheduled for now).
RECURSIVE EnterRequesters(_, _, _)
EnterRequesters(W, a, rqs) ==
    IF rqs = <<>> THEN W
    ELSE LET rq == Head(rqs)
         IN  EnterRequesters(
                 [W EXCEPT !.requesters[rq.r] =
                     InsertAt(@, SortedPos(@, rq.prio, 1),
                              [a |-> a, prio |-> rq.prio])],
                 a, Tail(rqs))

Request(W, a, rqs) ==
    TryRequest([EnterRequesters(W, a, rqs) EXCEPT !.requests[a] = rqs], a)

Rq(r, prio) == [r |-> r, q |-> 1, prio |-> prio]

\* Component._release(r): give the units back, then let r's requesters try.
Release(W, a, r) ==
    LET q == Held(W, a, r)
        left == SelectSeq(W.claims[a], LAMBDA c : c.r # r)
    IN  ResTryRequest(
            [W EXCEPT !.nclaimed[r] = @ - q, !.claims[a] = left], r)

\* Component.release(): every claimed resource, in the order of _claims.
RECURSIVE ReleaseEach(_, _, _)
ReleaseEach(W, a, cs) ==
    IF cs = <<>> THEN W
    ELSE ReleaseEach(Release(W, a, Head(cs).r), a, Tail(cs))

\* A release() that gives nothing back.
ReleaseNone(W, a) == W

ReleaseAll(W, a) == ReleaseEach(W, a, W.claims[a])

(***************************************************************************)
(* Stores and entities.                                                    *)
(***************************************************************************)
StampNames ==
    { "reception_start", "reception_end", "cutup_start", "cutup_end",
      "processing_start", "processing_end", "microtomy_start",
      "microtomy_end", "staining_start", "staining_end", "labelling_start",
      "labelling_end", "scanning_start", "scanning_end", "qc_start",
      "qc_end", "reporting_start", "reporting_end" }

NoEnt ==
    [ kind |-> "none", prio |-> 0, parent |-> 0, kids |-> <<>>, kw |-> {},
      source |-> "", cutup_type |-> "", decalc_type |-> "",
      block_type |-> "", slide_type |-> "", num |-> 0, total_slides |-> 0,
      stamps |-> [n \in StampNames |-> -1],
      gen |-> "", till |-> 0, born |-> 0, leftover |-> 0 ]

NoLoc == [i |-> 0, s |-> "", n |-> 0]

Data == [p |-> "data", i |-> 0]

\* kwargs.get(key, default), kwargs being a set of <<key, value>> pairs
KwGet(kw, key, default) ==
    IF \E x \in kw : x[1] = key
    THEN (CHOOSE x \in kw : x[1] = key)[2]
    ELSE default

\* Component.prio: a Specimen's own, a Block's is its parent's.
Prio(W, e) ==
    IF W.ent[e].kind = "Block" THEN W.ent[W.ent[e].parent].prio
    ELSE W.ent[e].prio

\* Store rescan: a process waiting in from_store gets the head item and is
\* rescheduled for now.
Rescan(W, n) ==
    IF W.waiting[n] /\ W.store[n] # <<>>
    THEN Schedule([W EXCEPT !.pitem[n] = Head(W.store[n]).e,
                            !.store[n] = Tail(@),
                            !.waiting[n] = FALSE],
                  ProcActor(n), W.now)
    ELSE W

\* Component.enter(q): at the tail, taking over the tail member's priority
\* (0 in an empty queue).
Enter(W, e, n) ==
    LET q == W.store[n]
        p == IF q = <<>> THEN 0 ELSE q[Len(q)].prio
    IN  Rescan([W EXCEPT !.store[n] = Append(@, [e |-> e, prio |-> p])], n)

\* Component.enter_sorted(q, priority)
EnterSorted(W, e, n, p) ==
    Rescan([W EXCEPT !.store[n] =
               InsertAt(@, SortedPos(@, p, 1), [e |-> e, prio |-> p])], n)

\* Component.from_store(store)
FromStore(W, n) == Rescan([W EXCEPT !.waiting[n] = TRUE], n)

\* Component.activate(process=label)
Activate(W, e, label) ==
    Schedule([W EXCEPT !.pc[e] = [p |-> label, i |-> 0]], EntActor(e), W.now)

\* The end of a component's process: salabim releases what is still
\* claimed and the component becomes data.
EndProcess(W, e) ==
    [ReleaseAll(W, EntActor(e)) EXCEPT
        !.pc[e] = Data,
        !.ent[e].leftover = SeqSum(W.claims[EntActor(e)])]

\* Specimen.timestamp(name)
Timestamp(W, e, name) == [W EXCEPT !.ent[e].stamps[name] = W.now]

\* A counter that only ever goes up.
WipAddUp(W, name, d) == [W EXCEPT !.wips[name] = @ + 1]

WipAdd(W, name, d) == [W EXCEPT !.wips[name] = @ + d]

\* sim.Component.__init__ of a component without a process method
NewData(W, rec) ==
    [W EXCEPT !.ent[W.nextId] = rec, !.nextId = @ + 1]

\* Specimen.__init__ -> setup(**kwargs): the source and the priority are
\* sampled from CumPdf tables (u, v: the two uniform draws, in percent);
\* the new component is scheduled for now to run Specimen.process.
SpecimenSetup(W, kw, u, v, gen, till) ==
    LET g == cfg.globals
        dist == IF KwGet(kw, "cancer", FALSE) THEN "cancer" ELSE "non_cancer"
        pu == IF dist = "cancer" THEN g.prob_urgent_cancer
              ELSE g.prob_urgent_non_cancer
        pp == IF dist = "cancer" THEN g.prob_priority_cancer
              ELSE g.prob_priority_non_cancer
        e == W.nextId
        rec == [NoEnt EXCEPT
                  !.kind = "Specimen",
                  !.kw = kw,
                  !.source = IF u < g.prob_internal THEN "Internal"
                             ELSE "External",
                  !.prio = IF v < pu THEN URGENT
                           ELSE IF v < pu + pp THEN PRIORITY
                           ELSE IF dist = "cancer" THEN CANCER
                           ELSE ROUTINE,
                  !.gen = gen, !.till = till, !.born = W.now]
    IN  Schedule([NewData(W, rec) EXCEPT !.pc[e] = [p |-> "process", i |-> 0]],
                 EntActor(e), W.now)

\* Specimen.process
SpecimenProcess(W, e) ==
    [Enter(W, e, "arrive_reception") EXCEPT !.pc[e] = Data]

Specimen_process ==
    /\ CanPop
    /\ Head(evl).a.k = "ent"
    /\ pc[Head(evl).a.id].p = "process"
    /\ Commit(SpecimenProcess(Popped, Head(evl).a.id))

(***************************************************************************)
(* Arrivals.                                                               *)
(***************************************************************************)
\* Model.setup: the two generators, their schedules and their kwargs.
ArrivalGenerators ==
    << [ name |-> "Arrival Generator (cancer)", schedule |-> "cancer",
         cls_args |-> {<<"cancer", TRUE>>} ],
       [ name |-> "Arrival Generator (noncancer)", schedule |-> "noncancer",
         cls_args |-> {<<"cancer", FALSE>>} ] >>

AGNames == {ArrivalGenerators[i].name : i \in 1..Len(ArrivalGenerators)}

AGOf(name) ==
    CHOOSE g \in {ArrivalGenerators[i] : i \in 1..Len(ArrivalGenerators)} :
        g.name = name

AGActor(name) == [k |-> "ag", id |-> 0, name |-> name]

\* A sub-generator is told apart by its parent and its till.
GenActor(name, till) == [k |-> "gen", id |-> till, name |-> name]

\* The keyword arguments ArrivalGenerator.process hands to
\* sim.ComponentGenerator for the Specimen constructor: none (cls_args is
\* stored by setup and not read again).
GeneratorKwargs(name) == {}

\* Samples of the Exponential inter-arrival time, in ticks (expovariate
\* can return 0.0).
IatSamples == {0, 5, 12}

\* sim.ComponentGenerator(Specimen, duration=dur, iat=...): the first
\* arrival is at now + iat(); past till nothing is generated.
ComponentGenerator(W, name, dur, iat) ==
    LET till == W.now + dur
    IN  IF W.now + iat > till THEN W
        ELSE Schedule(W, GenActor(name, till), W.now + iat)

\* A generator that spawns a sub-generator whatever the rate.
ArrivalGeneratorAnyRate(W, name, iat) ==
    Hold([ComponentGenerator(W, name, HourTicks, iat) EXCEPT
             !.agPos[name] = (@ % 168) + 1],
         [k |-> "ag", id |-> 0, name |-> name], HourTicks)

ArrivalGeneratorBody(W, name, iat) ==
    LET rates == cfg.arrivals[AGOf(name).schedule].rates
        rate == rates[W.agPos[name]]
        W1 == IF rate > 0
              THEN ComponentGenerator(W, name, HourTicks, iat)
              ELSE W
    IN  Hold([W1 EXCEPT !.agPos[name] = (@ % Len(rates)) + 1],
             AGActor(name), HourTicks)

ArrivalGeneratorStep ==
    /\ CanPop
    /\ Head(evl).a.k = "ag"
    /\ \E iat \in IatSamples :
          Commit(ArrivalGeneratorBody(Popped, Head(evl).a.name, iat))

\* ComponentGenerator.do_iat: one component, then the next arrival unless
\* it would fall after till.
DoIat(W, name, till, u, v, iat) ==
    LET W1 == SpecimenSetup(W, GeneratorKwargs(name), u, v, name, till)
    IN  IF W.now + iat > till THEN W1
        ELSE Schedule(W1, GenActor(name, till), W.now + iat)

USamples == {25, 75}

MaxSpecimens == 2

\* The specimens of SpecFlood, which follows them through reception only.
FloodSpecimens == 4

NumSpecimens == Cardinality({e \in EntIds : ent[e].kind = "Specimen"})

ComponentGeneratorStep ==
    /\ CanPop
    /\ Head(evl).a.k = "gen"
    /\ nextId <= MaxEnt
    /\ NumSpecimens < MaxSpecimens
    /\ \E u \in USamples, v \in USamples, iat \in IatSamples :
          Commit(DoIat(Popped, Head(evl).a.name, Head(evl).a.id, u, v, iat))

\* the same step under the bound of SpecFlood
FloodGeneratorStep ==
    /\ CanPop
    /\ Head(evl).a.k = "gen"
    /\ nextId <= MaxEnt
    /\ NumSpecimens < FloodSpecimens
    /\ \E u \in USamples, v \in USamples, iat \in IatSamples :
          Commit(DoIat(Popped, Head(evl).a.name, Head(evl).a.id, u, v, iat))

(***************************************************************************)
(* Process.process: activate the pulled entity under the process's name,   *)
(* then pull again.                                                        *)
(***************************************************************************)
\* A worker that activates the pulled entity and pulls no more.
WorkerBodyOnce(W, n) ==
    IF W.pitem[n] # 0
    THEN Activate([W EXCEPT !.pitem[n] = 0], W.pitem[n], n)
    ELSE FromStore(W, n)

WorkerBody(W, n) ==
    LET W1 == IF W.pitem[n] # 0
              THEN Activate([W EXCEPT !.pitem[n] = 0], W.pitem[n], n)
              ELSE W
    IN  FromStore(W1, n)

WorkerStep ==
    /\ CanPop
    /\ Head(evl).a.k = "proc"
    /\ Head(evl).a.name \in WorkerNames
    /\ Commit(WorkerBody(Popped, Head(evl).a.name))

(***************************************************************************)
(* BatchingProcess.process                                                 *)
(***************************************************************************)
NoPLoc == [e |-> 0, i |-> 0, batch |-> 0, count |-> 0, pool |-> <<>>]

BatchSize(n) == cfg.batch_sizes[BatcherTable[n].size]

\* batch = Batch(env=self.env), then the first from_store of the for loop
NewBatch(W, n) ==
    FromStore([NewData(W, [NoEnt EXCEPT !.kind = "Batch", !.gen = n]) EXCEPT
                  !.ploc[n].batch = W.nextId, !.ploc[n].count = 0], n)

\* A batcher that pushes its batch on after every member.
BatcherBodyEager(W, n) ==
    IF W.pitem[n] = 0
    THEN FromStore([NewData(W, [NoEnt EXCEPT !.kind = "Batch", !.gen = n])
                       EXCEPT !.ploc[n].batch = W.nextId,
                              !.ploc[n].count = 0], n)
    ELSE LET b == W.ploc[n].batch
             W1 == [W EXCEPT !.ent[b].kids = Append(@, W.pitem[n]),
                             !.pitem[n] = 0]
             W2 == Enter(W1, b, BatcherTable[n].out)
         IN  FromStore([NewData(W2, [NoEnt EXCEPT !.kind = "Batch",
                                                   !.gen = n])
                           EXCEPT !.ploc[n].batch = W2.nextId,
                                  !.ploc[n].count = 0], n)

BatcherBody(W, n) ==
    IF W.pitem[n] = 0 THEN NewBatch(W, n)
    ELSE LET b == W.ploc[n].batch
             c == W.ploc[n].count + 1
             \* item.register(batch.items)
             W1 == [W EXCEPT !.ent[b].kids = Append(@, W.pitem[n]),
                             !.ploc[n].count = c,
                             !.pitem[n] = 0]
         IN  IF c = BatchSize(n)
             THEN NewBatch(Enter(W1, b, BatcherTable[n].out), n)
             ELSE FromStore(W1, n)

BatcherStep ==
    /\ CanPop
    /\ Head(evl).a.k = "proc"
    /\ Head(evl).a.name \in BatcherNames
    /\ nextId <= MaxEnt
    /\ Commit(BatcherBody(Popped, Head(evl).a.name))

(***************************************************************************)
(* CollationProcess.process                                                *)
(***************************************************************************)
\* A collator that pushes the parent on with its first child.
CollatorBodyFirst(W, n) ==
    IF W.pitem[n] = 0 THEN FromStore(W, n)
    ELSE LET key == W.ent[W.pitem[n]].parent
             W1 == [W EXCEPT !.pitem[n] = 0]
         IN  FromStore(EnterSorted(W1, key, CollatorTable[n].out,
                                   Prio(W, key)), n)

CollatorBody(W, n) ==
    IF W.pitem[n] = 0 THEN FromStore(W, n)
    ELSE LET item == W.pitem[n]
             key == W.ent[item].parent
             pool == Append(W.ploc[n].pool, item)
             group == SelectSeq(pool, LAMBDA x : W.ent[x].parent = key)
             rest == SelectSeq(pool, LAMBDA x : W.ent[x].parent # key)
             W1 == [W EXCEPT !.pitem[n] = 0]
         IN  IF Len(group) = W.ent[key].num
             THEN FromStore(
                      EnterSorted([W1 EXCEPT !.ploc[n].pool = rest], key,
                                  CollatorTable[n].out, Prio(W, key)), n)
             ELSE FromStore([W1 EXCEPT !.ploc[n].pool = pool], n)

CollatorStep ==
    /\ CanPop
    /\ Head(evl).a.k = "proc"
    /\ Head(evl).a.name \in CollatorNames
    /\ Commit(CollatorBody(Popped, Head(evl).a.name))

(***************************************************************************)
(* DeliveryProcess.process                                                 *)
(***************************************************************************)
\* An unload that leaves all items but the first behind.
EnterFirstSorted(W, es, n) ==
    IF es = <<>> THEN W
    ELSE EnterSorted(W, Head(es), n, Prio(W, Head(es)))

\* for item in entity.items: item.enter_sorted(out_queue, item.prio)
RECURSIVE EnterEachSorted(_, _, _)
EnterEachSorted(W, es, n) ==
    IF es = <<>> THEN W
    ELSE EnterEachSorted(EnterSorted(W, Head(es), n, Prio(W, Head(es))),
                         Tail(es), n)

\* A runner priority that is ROUTINE whatever is carried.
delivery_prio_routine(W, x) == ROUTINE

\* delivery_prio = entity.prio if not isinstance(entity, Batch) else ROUTINE
delivery_prio(W, x) ==
    IF W.ent[x].kind = "Batch" THEN ROUTINE ELSE Prio(W, x)

\* A delivery that unloads only when the runner is back.
DeliveryBodyReturnFirst(W, n) ==
    LET a == ProcActor(n)
        d == DeliveryTable[n]
        e == W.ploc[n].e
        i == W.ploc[n].i
        At(V, j) == [V EXCEPT !.ploc[n].i = j]
    IN  CASE i = 0 -> At(FromStore(W, n), 1)
          [] i = 1 ->
               LET x == W.pitem[n]
               IN  At(Request([W EXCEPT !.ploc[n].e = x, !.pitem[n] = 0],
                                a, <<Rq(d.runner, delivery_prio(W, x))>>), 2)
          [] i = 2 -> At(Hold(W, a, cfg.runner_times.extra_loading), 3)
          [] i = 3 -> At(Hold(W, a, cfg.runner_times[d.leg]), 4)
          [] i = 4 -> At(Hold(W, a, cfg.runner_times.extra_unloading), 5)
          [] i = 5 -> At(Hold(W, a, cfg.runner_times[d.leg]), 6)
          [] OTHER ->
               LET W1 == IF W.ent[e].kind = "Batch"
                         THEN EnterEachSorted(W, W.ent[e].kids, d.out)
                         ELSE EnterSorted(W, e, d.out, Prio(W, e))
               IN  At(FromStore([ReleaseAll(W1, a) EXCEPT !.ploc[n].e = 0],
                                n), 1)

\* A delivery that pulls again with the runner still claimed.
DeliveryBodyKeepRunner(W, n) ==
    LET a == ProcActor(n)
        d == DeliveryTable[n]
        e == W.ploc[n].e
        i == W.ploc[n].i
        At(V, j) == [V EXCEPT !.ploc[n].i = j]
    IN  CASE i = 0 -> At(FromStore(W, n), 1)
          [] i = 1 ->
               LET x == W.pitem[n]
               IN  At(Request([W EXCEPT !.ploc[n].e = x, !.pitem[n] = 0],
                                a, <<Rq(d.runner, delivery_prio(W, x))>>), 2)
          [] i = 2 -> At(Hold(W, a, cfg.runner_times.extra_loading), 3)
          [] i = 3 -> At(Hold(W, a, cfg.runner_times[d.leg]), 4)
          [] i = 4 -> At(Hold(W, a, cfg.runner_times.extra_unloading), 5)
          [] i = 5 ->
               LET W1 == IF W.ent[e].kind = "Batch"
                         THEN EnterEachSorted(W, W.ent[e].kids, d.out)
                         ELSE EnterSorted(W, e, d.out, Prio(W, e))
               IN  At(Hold(W1, a, cfg.runner_times[d.leg]), 6)
          [] OTHER -> At(FromStore([W EXCEPT !.ploc[n].e = 0], n), 1)

DeliveryBody(W, n) ==
    LET a == ProcActor(n)
        d == DeliveryTable[n]
        e == W.ploc[n].e
        i == W.ploc[n].i
        At(V, j) == [V EXCEPT !.ploc[n].i = j]
    IN  CASE i = 0 -> At(FromStore(W, n), 1)
          [] i = 1 ->
               LET x == W.pitem[n]
               IN  At(Request([W EXCEPT !.ploc[n].e = x, !.pitem[n] = 0],
                                a, <<Rq(d.runner, delivery_prio(W, x))>>), 2)
          [] i = 2 -> At(Hold(W, a, cfg.runner_times.extra_loading), 3)
          [] i = 3 -> At(Hold(W, a, cfg.runner_times[d.leg]), 4)
          [] i = 4 -> At(Hold(W, a, cfg.runner_times.extra_unloading), 5)
          [] i = 5 ->
               LET W1 == IF W.ent[e].kind = "Batch"
                         THEN EnterEachSorted(W, W.ent[e].kids, d.out)
                         ELSE EnterSorted(W, e, d.out, Prio(W, e))
               IN  At(Hold(W1, a, cfg.runner_times[d.leg]), 6)
          [] OTHER ->
               At(FromStore([ReleaseAll(W, a) EXCEPT !.ploc[n].e = 0], n), 1)

DeliveryStep ==
    /\ CanPop
    /\ Head(evl).a.k = "proc"
    /\ Head(evl).a.name \in DeliveryNames
    /\ Commit(DeliveryBody(Popped, Head(evl).a.name))

(***************************************************************************)
(* Helpers for the process functions.  pc[e] = [p, i]: the function the    *)
(* entity runs and the suspension point it resumes from.                   *)
(***************************************************************************)
Me(e) == EntActor(e)

Goto(W, e, i) == [W EXCEPT !.pc[e].i = i]

\* Task durations as TaskDurations.from_config builds them: PERT and Tri
\* by type name, everything else Constant(mode).  k picks the sample.
Ks == {"low", "high"}

Sample(name, k) ==
    LET val == cfg.task_durations[name]
    IN  IF val.type = "PERT" \/ val.type = "Tri" THEN val[k] ELSE val.mode

\* Integer distributions as Globals.from_config builds them.
IntSamples(name) ==
    LET val == cfg.globals[name]
    IN  IF val.type = "IntPERT" \/ val.type = "IntTriangular"
        THEN val.low..val.high
        ELSE {val.mode}

\* A hand-over that sends every specimen to the batcher.
HandoverBatched(W, e, delivery) == Enter(W, e, "batcher." \o delivery)

\* The hand-over at the end of a stage: urgent specimens go straight to
\* the delivery process, the others to its batcher.
Handover(W, e, delivery) ==
    IF Prio(W, e) = URGENT
    THEN EnterSorted(W, e, delivery, URGENT)
    ELSE Enter(W, e, "batcher." \o delivery)

Running(name) ==
    /\ CanPop
    /\ Head(evl).a.k = "ent"
    /\ pc[Head(evl).a.id].p = name

Self == Head(evl).a.id

(***************************************************************************)
(* p10_reception                                                           *)
(***************************************************************************)
\* An arrival that seizes the staff with the specimen's own priority.
arrive_reception_own(W, e, k) ==
    LET i == W.pc[e].i
    IN  CASE i = 0 ->
               LET W1 == WipAdd(WipAdd(W, "total", 1), "in_reception", 1)
                   W2 == Timestamp(W1, e, "reception_start")
               IN  Goto(Request(W2, Me(e),
                                <<Rq("booking_in_staff", Prio(W, e))>>), e, 1)
          [] i = 1 -> Goto(Hold(W, Me(e), Sample("receive_and_sort", k)), e, 2)
          [] OTHER ->
               EndProcess(EnterSorted(ReleaseAll(W, Me(e)), e, "booking_in",
                                      Prio(W, e)), e)

arrive_reception_body(W, e, k) ==
    LET i == W.pc[e].i
    IN  CASE i = 0 ->
               LET W1 == WipAdd(WipAdd(W, "total", 1), "in_reception", 1)
                   W2 == Timestamp(W1, e, "reception_start")
               IN  Goto(Request(W2, Me(e),
                                <<Rq("booking_in_staff", URGENT)>>), e, 1)
          [] i = 1 -> Goto(Hold(W, Me(e), Sample("receive_and_sort", k)), e, 2)
          [] OTHER ->
               EndProcess(EnterSorted(ReleaseAll(W, Me(e)), e, "booking_in",
                                      Prio(W, e)), e)

arrive_reception ==
    /\ Running("arrive_reception")
    /\ \E k \in Ks : Commit(arrive_reception_body(Popped, Self, k))

\* The three parts of booking_in that follow the request; each either
\* holds or falls through to the next.
booking_in_done(W, e) ==
    LET W1 == ReleaseAll(W, Me(e))
        W2 == Timestamp(W1, e, "reception_end")
        W3 == WipAdd(W2, "in_reception", -1)
    IN  EndProcess(Handover(W3, e, "reception_to_cutup"), e)

\* an investigation where the hard probability is added to the easy one
booking_in_invest_added(W, e, u, k) ==
    LET g == cfg.globals
        is_internal == W.ent[e].source = "Internal"
        name == IF is_internal
                THEN IF u < g.prob_invest_easy
                     THEN "booking_in_investigation_internal_easy"
                     ELSE IF u < g.prob_invest_easy + g.prob_invest_hard
                     THEN "booking_in_investigation_internal_hard"
                     ELSE ""
                ELSE IF u < g.prob_invest_external
                     THEN "booking_in_investigation_external"
                     ELSE ""
    IN  IF name = "" THEN booking_in_done(W, e)
        ELSE Goto(Hold(W, Me(e), Sample(name, k)), e, 4)

booking_in_invest(W, e, u, k) ==
    LET g == cfg.globals
        is_internal == W.ent[e].source = "Internal"
        name == IF is_internal
                THEN IF u < g.prob_invest_easy
                     THEN "booking_in_investigation_internal_easy"
                     ELSE IF u < g.prob_invest_hard
                     THEN "booking_in_investigation_internal_hard"
                     ELSE ""
                ELSE IF u < g.prob_invest_external
                     THEN "booking_in_investigation_external"
                     ELSE ""
    IN  IF name = "" THEN booking_in_done(W, e)
        ELSE Goto(Hold(W, Me(e), Sample(name, k)), e, 4)

booking_in_book(W, e, k) ==
    Goto(Hold(W, Me(e),
              Sample(IF W.ent[e].source = "Internal" THEN "booking_in_internal"
                     ELSE "booking_in_external", k)), e, 3)

booking_in_body(W, e, u, k) ==
    LET i == W.pc[e].i
    IN  CASE i = 0 ->
               Goto(Request(W, Me(e),
                            <<Rq("booking_in_staff", Prio(W, e))>>), e, 1)
          [] i = 1 ->
               IF u < cfg.globals.prob_prebook
               THEN Goto(Hold(W, Me(e),
                              Sample("pre_booking_in_investigation", k)), e, 2)
               ELSE booking_in_book(W, e, k)
          [] i = 2 -> booking_in_book(W, e, k)
          [] i = 3 -> booking_in_invest(W, e, u, k)
          [] OTHER -> booking_in_done(W, e)

booking_in ==
    /\ Running("booking_in")
    /\ \E u \in USamples, k \in Ks : Commit(booking_in_body(Popped, Self, u, k))

(***************************************************************************)
(* p20_cutup                                                               *)
(***************************************************************************)
\* A cut-up start that writes no timestamp.
cutup_start_unstamped(W, e, u) ==
    LET g == cfg.globals
        urgent == Prio(W, e) = URGENT
        p_bms == IF urgent THEN g.prob_bms_cutup_urgent ELSE g.prob_bms_cutup
        p_pool == IF urgent THEN g.prob_pool_cutup_urgent
                  ELSE g.prob_pool_cutup
        cutup_type == IF u < p_bms THEN "BMS"
                      ELSE IF u < p_bms + p_pool THEN "Pool"
                      ELSE "Large specimens"
        next_process == IF u < p_bms THEN "cutup_bms"
                        ELSE IF u < p_bms + p_pool THEN "cutup_pool"
                        ELSE "cutup_large"
        W1 == WipAdd(W, "in_cut_up", 1)
        W2 == [W1 EXCEPT !.ent[e].cutup_type = cutup_type]
    IN  EndProcess(EnterSorted(W2, e, next_process, Prio(W, e)), e)

cutup_start_body(W, e, u) ==
    LET g == cfg.globals
        urgent == Prio(W, e) = URGENT
        p_bms == IF urgent THEN g.prob_bms_cutup_urgent ELSE g.prob_bms_cutup
        p_pool == IF urgent THEN g.prob_pool_cutup_urgent
                  ELSE g.prob_pool_cutup
        cutup_type == IF u < p_bms THEN "BMS"
                      ELSE IF u < p_bms + p_pool THEN "Pool"
                      ELSE "Large specimens"
        next_process == IF u < p_bms THEN "cutup_bms"
                        ELSE IF u < p_bms + p_pool THEN "cutup_pool"
                        ELSE "cutup_large"
        W1 == Timestamp(WipAdd(W, "in_cut_up", 1), e, "cutup_start")
        W2 == [W1 EXCEPT !.ent[e].cutup_type = cutup_type]
    IN  EndProcess(EnterSorted(W2, e, next_process, Prio(W, e)), e)

cutup_start ==
    /\ Running("cutup_start")
    /\ \E u \in USamples : Commit(cutup_start_body(Popped, Self, u))

\* n components of one kind under one parent, appended to the parent's list
RECURSIVE NewKids(_, _, _, _, _)
NewKids(W, parent, kind, type, n) ==
    IF n <= 0 THEN W
    ELSE LET rec == [NoEnt EXCEPT
                       !.kind = kind, !.parent = parent,
                       !.block_type = IF kind = "Block" THEN type ELSE "",
                       !.slide_type = IF kind = "Slide" THEN type ELSE ""]
             W1 == [NewData(W, rec) EXCEPT
                       !.ent[parent].kids = Append(@, W.nextId)]
         IN  NewKids(W1, parent, kind, type, n - 1)

\* cutup_type: "bms", "pool" or "large"; nl, nm: the samples of
\* num_blocks_large_surgical and num_blocks_mega
cutup_generic(W, e, cutup_type, u, k, nl, nm) ==
    LET i == W.pc[e].i
        resource == IF cutup_type = "bms" THEN "bms" ELSE "cut_up_assistant"
        duration == IF cutup_type = "bms" THEN "cut_up_bms"
                    ELSE IF cutup_type = "pool" THEN "cut_up_pool"
                    ELSE "cut_up_large_specimens"
    IN  CASE i = 0 ->
               LET block_type ==
                       IF cutup_type = "bms" THEN "small surgical"
                       ELSE IF cutup_type = "pool" THEN "large surgical"
                       ELSE IF Prio(W, e) = URGENT
                               \/ u < cfg.globals.prob_mega_blocks
                       THEN "large surgical"
                       ELSE "mega"
                   n_blocks == IF cutup_type = "large"
                               THEN IF block_type = "mega" THEN nm ELSE nl
                               ELSE 1
                   W1 == [W EXCEPT !.loc[e] = [NoLoc EXCEPT !.s = block_type,
                                                           !.n = n_blocks]]
               IN  Goto(Request(W1, Me(e), <<Rq(resource, Prio(W, e))>>), e, 1)
          [] i = 1 -> Goto(Hold(W, Me(e), Sample(duration, k)), e, 2)
          [] OTHER ->
               LET W1 == NewKids(W, e, "Block", W.loc[e].s, W.loc[e].n)
                   W2 == [W1 EXCEPT !.ent[e].num = W.loc[e].n]
                   W3 == ReleaseAll(W2, Me(e))
                   W4 == Timestamp(WipAdd(W3, "in_cut_up", -1), e, "cutup_end")
               IN  EndProcess(
                       Handover(W4, e, "cutup_" \o cutup_type
                                           \o "_to_processing"), e)

cutup_bms ==
    /\ Running("cutup_bms")
    /\ nextId <= MaxEnt
    /\ \E k \in Ks : Commit(cutup_generic(Popped, Self, "bms", 0, k, 1, 1))

cutup_pool ==
    /\ Running("cutup_pool")
    /\ nextId <= MaxEnt
    /\ \E k \in Ks : Commit(cutup_generic(Popped, Self, "pool", 0, k, 1, 1))

cutup_large ==
    /\ Running("cutup_large")
    /\ \E u \in USamples, k \in Ks,
          nl \in IntSamples("num_blocks_large_surgical"),
          nm \in IntSamples("num_blocks_mega") :
          /\ nextId + nl <= MaxEnt + 1
          /\ nextId + nm <= MaxEnt + 1
          /\ Commit(cutup_generic(Popped, Self, "large", u, k, nl, nm))

(***************************************************************************)
(* p30_processing                                                          *)
(***************************************************************************)
\* for block in self.blocks: block.enter_sorted(out_queue, priority)
RECURSIVE EnterAllSorted(_, _, _, _)
EnterAllSorted(W, es, n, p) ==
    IF es = <<>> THEN W
    ELSE EnterAllSorted(EnterSorted(W, Head(es), n, p), Tail(es), n, p)

\* for slide in self.items: slide.enter(queue)
RECURSIVE EnterAll(_, _, _)
EnterAll(W, es, n) ==
    IF es = <<>> THEN W
    ELSE EnterAll(Enter(W, Head(es), n), Tail(es), n)

processing_start_body(W, e, u) ==
    LET g == cfg.globals
        W1 == Timestamp(WipAdd(W, "in_processing", 1), e, "processing_start")
        decalc_type == IF u < g.prob_decalc_bone THEN "bone station"
                       ELSE IF u < g.prob_decalc_bone + g.prob_decalc_oven
                       THEN "decalc oven"
                       ELSE ""
        out_queue == IF u < g.prob_decalc_bone
                     THEN "batcher.decalc_bone_station"
                     ELSE IF u < g.prob_decalc_bone + g.prob_decalc_oven
                     THEN "decalc_oven"
                     ELSE "processing_assign_queue"
        W2 == [W1 EXCEPT !.ent[e].decalc_type = decalc_type]
    IN  EndProcess(EnterAllSorted(W2, W.ent[e].kids, out_queue, Prio(W, e)), e)

processing_start ==
    /\ Running("processing_start")
    /\ \E u \in USamples : Commit(processing_start_body(Popped, Self, u))

decalc_bone_station_body(W, e, k) ==
    LET i == W.pc[e].i
    IN  CASE i = 0 ->
               Goto(Request(W, Me(e), <<Rq("bone_station", NoPriority)>>), e, 1)
          [] i = 1 -> Goto(Request(W, Me(e), <<Rq("bms", NoPriority)>>), e, 2)
          [] i = 2 -> Goto(Hold(W, Me(e), Sample("load_bone_station", k)), e, 3)
          [] i = 3 ->
               Goto(Hold(Release(W, Me(e), "bms"), Me(e),
                         Sample("decalc", k)), e, 4)
          [] i = 4 -> Goto(Request(W, Me(e), <<Rq("bms", NoPriority)>>), e, 5)
          [] i = 5 ->
               Goto(Hold(W, Me(e), Sample("unload_bone_station", k)), e, 6)
          [] OTHER ->
               LET W1 == ReleaseAll(Release(W, Me(e), "bms"), Me(e))
               IN  EndProcess(EnterEachSorted(W1, W.ent[e].kids,
                                              "processing_assign_queue"), e)

decalc_bone_station ==
    /\ Running("decalc_bone_station")
    /\ \E k \in Ks : Commit(decalc_bone_station_body(Popped, Self, k))

decalc_oven_body(W, e, k) ==
    LET i == W.pc[e].i
    IN  CASE i = 0 -> Goto(Request(W, Me(e), <<Rq("bms", NoPriority)>>), e, 1)
          [] i = 1 ->
               Goto(Hold(W, Me(e), Sample("load_into_decalc_oven", k)), e, 2)
          [] i = 2 ->
               Goto(Hold(ReleaseAll(W, Me(e)), Me(e), Sample("decalc", k)), e, 3)
          [] i = 3 -> Goto(Request(W, Me(e), <<Rq("bms", NoPriority)>>), e, 4)
          [] i = 4 ->
               Goto(Hold(W, Me(e), Sample("unload_from_decalc_oven", k)), e, 5)
          [] OTHER ->
               EndProcess(EnterSorted(ReleaseAll(W, Me(e)), e,
                                      "processing_assign_queue", Prio(W, e)), e)

decalc_oven ==
    /\ Running("decalc_oven")
    /\ \E k \in Ks : Commit(decalc_oven_body(Popped, Self, k))

\* An assignment by block type alone.
processing_assign_by_type(W, e) ==
    LET out_queue ==
            IF W.ent[e].block_type = "small surgical"
            THEN "batcher.processing_smalls"
            ELSE IF W.ent[e].block_type = "large surgical"
            THEN "batcher.processing_larges"
            ELSE "batcher.processing_megas"
    IN  EndProcess(EnterSorted(W, e, out_queue, Prio(W, e)), e)

processing_assign_queue_body(W, e) ==
    LET out_queue ==
            IF Prio(W, e) = URGENT THEN "batcher.processing_urgents"
            ELSE IF W.ent[e].block_type = "small surgical"
            THEN "batcher.processing_smalls"
            ELSE IF W.ent[e].block_type = "large surgical"
            THEN "batcher.processing_larges"
            ELSE "batcher.processing_megas"
    IN  EndProcess(EnterSorted(W, e, out_queue, Prio(W, e)), e)

processing_assign_queue ==
    /\ Running("processing_assign_queue")
    /\ Commit(processing_assign_queue_body(Popped, Self))

\* LOAD / run / UNLOAD of a machine program: staff and machine are seized
\* together, the staff is released while the machine runs and seized
\* again to unload.  b is the suspension point the program starts at;
\* the caller continues from b + 5.
machine_program(W, e, b, staff, machine, prio, load, run, unload, k) ==
    LET i == W.pc[e].i - b
    IN  CASE i = 0 ->
               Goto(Request(W, Me(e),
                            <<Rq(staff, prio), Rq(machine, prio)>>), e, b + 1)
          [] i = 1 -> Goto(Hold(W, Me(e), Sample(load, k)), e, b + 2)
          [] i = 2 ->
               Goto(Hold(Release(W, Me(e), staff), Me(e), Sample(run, k)),
                    e, b + 3)
          [] i = 3 -> Goto(Request(W, Me(e), <<Rq(staff, prio)>>), e, b + 4)
          [] OTHER -> Goto(Hold(W, Me(e), Sample(unload, k)), e, b + 5)

processing_urgents_body(W, e, k) ==
    IF W.pc[e].i < 5
    THEN machine_program(W, e, 0, "processing_room_staff", "processing_machine",
                         URGENT, "load_processing_machine",
                         "processing_urgent", "unload_processing_machine", k)
    ELSE EndProcess(EnterEachSorted(ReleaseAll(W, Me(e)), W.ent[e].kids,
                                    "embed_and_trim"), e)

processing_urgents ==
    /\ Running("processing_urgents")
    /\ \E k \in Ks : Commit(processing_urgents_body(Popped, Self, k))

processing_generic(W, e, duration, k) ==
    IF W.pc[e].i < 5
    THEN machine_program(W, e, 0, "processing_room_staff", "processing_machine",
                         NoPriority, "load_processing_machine", duration,
                         "unload_processing_machine", k)
    ELSE EndProcess(EnterEachSorted(ReleaseAll(W, Me(e)), W.ent[e].kids,
                                    "embed_and_trim"), e)

processing_smalls ==
    /\ Running("processing_smalls")
    /\ \E k \in Ks :
          Commit(processing_generic(Popped, Self,
                                    "processing_small_surgicals", k))

processing_larges ==
    /\ Running("processing_larges")
    /\ \E k \in Ks :
          Commit(processing_generic(Popped, Self,
                                    "processing_large_surgicals", k))

processing_megas ==
    /\ Running("processing_megas")
    /\ \E k \in Ks :
          Commit(processing_generic(Popped, Self, "processing_megas", k))

\* embed_and_trim that asks for the staff with the block's own priority
embed_and_trim_own_prio(W, e, k) ==
    LET i == W.pc[e].i
        staff == <<Rq("processing_room_staff", Prio(W, e))>>
    IN  CASE i = 0 -> Goto(Request(W, Me(e), staff), e, 1)
          [] i = 1 -> Goto(Hold(W, Me(e), Sample("embedding", k)), e, 2)
          [] i = 2 ->
               Goto(Hold(ReleaseAll(W, Me(e)), Me(e),
                         Sample("embedding_cooldown", k)), e, 3)
          [] i = 3 -> Goto(Request(W, Me(e), staff), e, 4)
          [] i = 4 -> Goto(Hold(W, Me(e), Sample("block_trimming", k)), e, 5)
          [] OTHER ->
               EndProcess(EnterSorted(ReleaseAll(W, Me(e)), e,
                                      "collate.processing", Prio(W, e)), e)

embed_and_trim_body(W, e, k) ==
    LET i == W.pc[e].i
        staff == <<Rq("processing_room_staff", NoPriority)>>
    IN  CASE i = 0 -> Goto(Request(W, Me(e), staff), e, 1)
          [] i = 1 -> Goto(Hold(W, Me(e), Sample("embedding", k)), e, 2)
          [] i = 2 ->
               Goto(Hold(ReleaseAll(W, Me(e)), Me(e),
                         Sample("embedding_cooldown", k)), e, 3)
          [] i = 3 -> Goto(Request(W, Me(e), staff), e, 4)
          [] i = 4 -> Goto(Hold(W, Me(e), Sample("block_trimming", k)), e, 5)
          [] OTHER ->
               EndProcess(EnterSorted(ReleaseAll(W, Me(e)), e,
                                      "collate.processing", Prio(W, e)), e)

embed_and_trim ==
    /\ Running("embed_and_trim")
    /\ \E k \in Ks : Commit(embed_and_trim_body(Popped, Self, k))

post_processing_body(W, e) ==
    LET W1 == Timestamp(WipAdd(W, "in_processing", -1), e, "processing_end")
    IN  EndProcess(Handover(W1, e, "processing_to_microtomy"), e)

post_processing ==
    /\ Running("post_processing")
    /\ Commit(post_processing_body(Popped, Self))

(***************************************************************************)
(* p40_microtomy                                                           *)
(***************************************************************************)
microtomy_done(W, e) ==
    LET W1 == Timestamp(WipAdd(W, "in_microtomy", -1), e, "microtomy_end")
    IN  EndProcess(Handover(W1, e, "microtomy_to_staining"), e)

\* the head of the for loop: seize for the block at loc.i, or leave
microtomy_loop(W, e) ==
    IF W.loc[e].i > Len(W.ent[e].kids) THEN microtomy_done(W, e)
    ELSE Goto(Request(W, Me(e), <<Rq("microtomy_staff", Prio(W, e))>>), e, 1)

\* microtomy that keeps its staff unit from one block to the next
microtomy_keep_staff(W, e, u, k, n) ==
    LET i == W.pc[e].i
        block == W.ent[e].kids[W.loc[e].i]
    IN  CASE i = 0 ->
               LET W1 == Timestamp(WipAdd(W, "in_microtomy", 1), e,
                                   "microtomy_start")
               IN  microtomy_loop(
                       [W1 EXCEPT !.ent[e].total_slides = 0,
                                  !.loc[e] = [NoLoc EXCEPT !.i = 1]], e)
          [] i = 1 ->
               LET bt == W.ent[block].block_type
                   slide_type ==
                       IF bt = "small surgical"
                       THEN IF u < cfg.globals.prob_microtomy_levels
                            THEN "levels" ELSE "serials"
                       ELSE IF bt = "large surgical" THEN "larges"
                       ELSE "megas"
               IN  Goto(Hold([W EXCEPT !.loc[e].s = slide_type], Me(e),
                             Sample("microtomy_" \o slide_type, k)), e, 2)
          [] OTHER ->
               LET W1 == NewKids(W, block, "Slide", W.loc[e].s, n)
                   W2 == [W1 EXCEPT !.ent[block].num = n,
                                    !.ent[e].total_slides = @ + n,
                                    !.loc[e].i = @ + 1]
               IN  IF W2.loc[e].i > Len(W2.ent[e].kids)
                   THEN microtomy_loop(ReleaseAll(W2, Me(e)), e)
                   ELSE microtomy_loop(W2, e)

\* microtomy that leaves num_slides of the block unset
microtomy_count_unset(W, e, u, k, n) ==
    LET i == W.pc[e].i
        block == W.ent[e].kids[W.loc[e].i]
    IN  CASE i = 0 ->
               LET W1 == Timestamp(WipAdd(W, "in_microtomy", 1), e,
                                   "microtomy_start")
               IN  microtomy_loop(
                       [W1 EXCEPT !.ent[e].total_slides = 0,
                                  !.loc[e] = [NoLoc EXCEPT !.i = 1]], e)
          [] i = 1 ->
               LET bt == W.ent[block].block_type
                   slide_type ==
                       IF bt = "small surgical"
                       THEN IF u < cfg.globals.prob_microtomy_levels
                            THEN "levels" ELSE "serials"
                       ELSE IF bt = "large surgical" THEN "larges"
                       ELSE "megas"
               IN  Goto(Hold([W EXCEPT !.loc[e].s = slide_type], Me(e),
                             Sample("microtomy_" \o slide_type, k)), e, 2)
          [] OTHER ->
               LET W1 == NewKids(W, block, "Slide", W.loc[e].s, n)
                   W2 == [W1 EXCEPT !.ent[e].total_slides = @ + n,
                                    !.loc[e].i = @ + 1]
               IN  microtomy_loop(ReleaseAll(W2, Me(e)), e)

microtomy_body(W, e, u, k, n) ==
    LET i == W.pc[e].i
        block == W.ent[e].kids[W.loc[e].i]
    IN  CASE i = 0 ->
               LET W1 == Timestamp(WipAdd(W, "in_microtomy", 1), e,
                                   "microtomy_start")
               IN  microtomy_loop(
                       [W1 EXCEPT !.ent[e].total_slides = 0,
                                  !.loc[e] = [NoLoc EXCEPT !.i = 1]], e)
          [] i = 1 ->
               LET bt == W.ent[block].block_type
                   slide_type ==
                       IF bt = "small surgical"
                       THEN IF u < cfg.globals.prob_microtomy_levels
                            THEN "levels" ELSE "serials"
                       ELSE IF bt = "large surgical" THEN "larges"
                       ELSE "megas"
               IN  Goto(Hold([W EXCEPT !.loc[e].s = slide_type], Me(e),
                             Sample("microtomy_" \o slide_type, k)), e, 2)
          [] OTHER ->
               LET W1 == NewKids(W, block, "Slide", W.loc[e].s, n)
                   W2 == [W1 EXCEPT !.ent[block].num = n,
                                    !.ent[e].total_slides = @ + n,
                                    !.loc[e].i = @ + 1]
               IN  microtomy_loop(ReleaseAll(W2, Me(e)), e)

microtomy ==
    /\ Running("microtomy")
    /\ \E u \in USamples, k \in Ks,
          n \in IF pc[Self].i = 2 THEN IntSamples("num_slides_" \o loc[Self].s)
                ELSE {0} :
          /\ nextId + n <= MaxEnt + 1
          /\ Commit(microtomy_body(Popped, Self, u, k, n))

(***************************************************************************)
(* p50_staining                                                            *)
(***************************************************************************)
\* all slides of a specimen, block by block
RECURSIVE SlidesOf(_, _)
SlidesOf(W, blocks) ==
    IF blocks = <<>> THEN <<>>
    ELSE W.ent[Head(blocks)].kids \o SlidesOf(W, Tail(blocks))

RECURSIVE staining_start_each(_, _, _)
staining_start_each(W, slides, p) ==
    IF slides = <<>> THEN W
    ELSE LET q == IF W.ent[Head(slides)].slide_type = "megas"
                  THEN "batcher.staining_megas"
                  ELSE "batcher.staining_regular"
         IN  staining_start_each(EnterSorted(W, Head(slides), q, p),
                                 Tail(slides), p)

staining_start_body(W, e) ==
    LET W1 == Timestamp(WipAdd(W, "in_staining", 1), e, "staining_start")
    IN  EndProcess(staining_start_each(W1, SlidesOf(W, W.ent[e].kids),
                                       Prio(W, e)), e)

staining_start ==
    /\ Running("staining_start")
    /\ Commit(staining_start_body(Popped, Self))

staining_regular_body(W, e, k) ==
    LET i == W.pc[e].i
    IN  IF i < 5
        THEN machine_program(W, e, 0, "staining_staff", "staining_machine",
                             NoPriority, "load_staining_machine_regular",
                             "staining_regular",
                             "unload_staining_machine_regular", k)
        ELSE IF i = 5
        THEN machine_program(Goto(ReleaseAll(W, Me(e)), e, 6), e, 6,
                             "staining_staff", "coverslip_machine",
                             NoPriority, "load_coverslip_machine_regular",
                             "coverslip_regular",
                             "unload_coverslip_machine_regular", k)
        ELSE IF i < 11
        THEN machine_program(W, e, 6, "staining_staff", "coverslip_machine",
                             NoPriority, "load_coverslip_machine_regular",
                             "coverslip_regular",
                             "unload_coverslip_machine_regular", k)
        ELSE EndProcess(EnterAll(ReleaseAll(W, Me(e)), W.ent[e].kids,
                                 "collate.staining.slides"), e)

staining_regular ==
    /\ Running("staining_regular")
    /\ \E k \in Ks : Commit(staining_regular_body(Popped, Self, k))

\* the head of the manual coverslipping loop
staining_megas_loop(W, e, k) ==
    IF W.loc[e].i > Len(W.ent[e].kids)
    THEN EndProcess(ReleaseAll(W, Me(e)), e)
    ELSE Goto(Hold(W, Me(e), Sample("coverslip_megas", k)), e, 6)

\* A mega staining that gives up the staff with the machine and coverslips
\* without it.
staining_megas_unstaffed(W, e, k) ==
    LET i == W.pc[e].i
    IN  IF i < 5
        THEN machine_program(W, e, 0, "staining_staff", "staining_machine",
                             NoPriority, "load_staining_machine_megas",
                             "staining_megas",
                             "unload_staining_machine_megas", k)
        ELSE IF i = 5
        THEN staining_megas_loop(
                 [ReleaseAll(W, Me(e)) EXCEPT
                     !.loc[e] = [NoLoc EXCEPT !.i = 1]], e, k)
        ELSE LET slide == W.ent[e].kids[W.loc[e].i]
                 W1 == Enter(W, slide, "collate.staining.slides")
             IN  staining_megas_loop([W1 EXCEPT !.loc[e].i = @ + 1], e, k)

staining_megas_body(W, e, k) ==
    LET i == W.pc[e].i
    IN  IF i < 5
        THEN machine_program(W, e, 0, "staining_staff", "staining_machine",
                             NoPriority, "load_staining_machine_megas",
                             "staining_megas",
                             "unload_staining_machine_megas", k)
        ELSE IF i = 5
        THEN staining_megas_loop(
                 [Release(W, Me(e), "staining_machine") EXCEPT
                     !.loc[e] = [NoLoc EXCEPT !.i = 1]], e, k)
        ELSE LET slide == W.ent[e].kids[W.loc[e].i]
                 W1 == Enter(W, slide, "collate.staining.slides")
             IN  staining_megas_loop([W1 EXCEPT !.loc[e].i = @ + 1], e, k)

staining_megas ==
    /\ Running("staining_megas")
    /\ \E k \in Ks : Commit(staining_megas_body(Popped, Self, k))

post_staining_body(W, e) ==
    LET W1 == Timestamp(WipAdd(W, "in_staining", -1), e, "staining_end")
    IN  EndProcess(Handover(W1, e, "staining_to_labelling"), e)

post_staining ==
    /\ Running("post_staining")
    /\ Commit(post_staining_body(Popped, Self))

(***************************************************************************)
(* p60_labelling                                                           *)
(***************************************************************************)
\* loc.n counts the slides still to label
labelling_loop(W, e, k) ==
    IF W.loc[e].n = 0
    THEN LET W1 == ReleaseAll(W, Me(e))
             W2 == Timestamp(WipAdd(W1, "in_labelling", -1), e, "labelling_end")
         IN  EndProcess(Handover(W2, e, "labelling_to_scanning"), e)
    ELSE Goto(Hold([W EXCEPT !.loc[e].n = @ - 1], Me(e),
                   Sample("labelling", k)), e, 1)

labelling_body(W, e, k) ==
    IF W.pc[e].i = 0
    THEN LET W1 == Timestamp(WipAdd(W, "in_labelling", 1), e, "labelling_start")
             W2 == [W1 EXCEPT !.loc[e] =
                       [NoLoc EXCEPT !.n = Len(SlidesOf(W, W.ent[e].kids))]]
         IN  Goto(Request(W2, Me(e), <<Rq("microtomy_staff", Prio(W, e))>>),
                  e, 1)
    ELSE labelling_loop(W, e, k)

labelling ==
    /\ Running("labelling")
    /\ \E k \in Ks : Commit(labelling_body(Popped, Self, k))

(***************************************************************************)
(* p70_scanning                                                            *)
(***************************************************************************)
RECURSIVE scanning_start_each(_, _)
scanning_start_each(W, slides) ==
    IF slides = <<>> THEN W
    ELSE LET q == IF W.ent[Head(slides)].slide_type = "megas"
                  THEN "batcher.scanning_megas"
                  ELSE "batcher.scanning_regular"
         IN  scanning_start_each(Enter(W, Head(slides), q), Tail(slides))

scanning_start_body(W, e) ==
    LET W1 == Timestamp(WipAdd(W, "in_scanning", 1), e, "scanning_start")
    IN  EndProcess(scanning_start_each(W1, SlidesOf(W, W.ent[e].kids)), e)

scanning_start ==
    /\ Running("scanning_start")
    /\ Commit(scanning_start_body(Popped, Self))

\* megas_or_regular: "megas" or "regular"
scanning_generic(W, e, megas_or_regular, k) ==
    IF W.pc[e].i < 5
    THEN machine_program(W, e, 0, "scanning_staff",
                         "scanning_machine_" \o megas_or_regular, NoPriority,
                         "load_scanning_machine_" \o megas_or_regular,
                         "scanning_" \o megas_or_regular,
                         "unload_scanning_machine_" \o megas_or_regular, k)
    ELSE EndProcess(EnterAll(ReleaseAll(W, Me(e)), W.ent[e].kids,
                             "collate.scanning.slides"), e)

scanning_regular ==
    /\ Running("scanning_regular")
    /\ \E k \in Ks : Commit(scanning_generic(Popped, Self, "regular", k))

scanning_megas ==
    /\ Running("scanning_megas")
    /\ \E k \in Ks : Commit(scanning_generic(Popped, Self, "megas", k))

\* post_scanning that hands over as the other stages do
post_scanning_handover(W, e) ==
    LET W1 == Timestamp(WipAdd(W, "in_scanning", -1), e, "scanning_end")
    IN  EndProcess(Handover(W1, e, "scanning_to_qc"), e)

post_scanning_body(W, e) ==
    LET W1 == Timestamp(WipAdd(W, "in_scanning", -1), e, "scanning_end")
    IN  EndProcess(EnterSorted(W1, e, "batcher.scanning_to_qc", Prio(W, e)), e)

post_scanning ==
    /\ Running("post_scanning")
    /\ Commit(post_scanning_body(Popped, Self))

(***************************************************************************)
(* p80_qc, p90_reporting                                                   *)
(***************************************************************************)
qc_body(W, e, k) ==
    LET i == W.pc[e].i
    IN  CASE i = 0 ->
               LET W1 == Timestamp(WipAdd(W, "in_qc", 1), e, "qc_start")
               IN  Goto(Request(W1, Me(e), <<Rq("qc_staff", Prio(W, e))>>), e, 1)
          [] i = 1 ->
               Goto(Hold(W, Me(e), Sample("block_and_quality_check", k)), e, 2)
          [] OTHER ->
               LET W1 == ReleaseAll(W, Me(e))
                   W2 == Timestamp(WipAdd(W1, "in_qc", -1), e, "qc_end")
               IN  EndProcess(Enter(W2, e, "assign_histopath"), e)

qc ==
    /\ Running("qc")
    /\ \E k \in Ks : Commit(qc_body(Popped, Self, k))

assign_histopath_body(W, e, k) ==
    LET i == W.pc[e].i
    IN  CASE i = 0 ->
               Goto(Request(W, Me(e), <<Rq("qc_staff", Prio(W, e))>>), e, 1)
          [] i = 1 ->
               Goto(Hold(W, Me(e), Sample("assign_histopathologist", k)), e, 2)
          [] OTHER -> EndProcess(Enter(ReleaseAll(W, Me(e)), e, "report"), e)

assign_histopath ==
    /\ Running("assign_histopath")
    /\ \E k \in Ks : Commit(assign_histopath_body(Popped, Self, k))

report_body(W, e, k) ==
    LET i == W.pc[e].i
    IN  CASE i = 0 ->
               LET W1 == Timestamp(WipAdd(W, "in_reporting", 1), e,
                                   "reporting_start")
               IN  Goto(Request(W1, Me(e),
                                <<Rq("histopathologist", Prio(W, e))>>), e, 1)
          [] i = 1 -> Goto(Hold(W, Me(e), Sample("write_report", k)), e, 2)
          [] OTHER ->
               LET W1 == ReleaseAll(W, Me(e))
                   W2 == Timestamp(WipAdd(W1, "in_reporting", -1), e,
                                   "reporting_end")
               IN  EndProcess(WipAdd(W2, "total", -1), e)

report ==
    /\ Running("report")
    /\ \E k \in Ks : Commit(report_body(Popped, Self, k))

(***************************************************************************)
(* ResourceScheduler.process: one pass from a resumption to the next hold. *)
(***************************************************************************)
DayFlag(r, d) == cfg.resources[r].day_flags[d + 1]

\* The allocation of the following half-hour slot.
AllocationAhead(r, s) == cfg.resources[r].allocation[(s % 48) + 1]

Allocation(r, s) == cfg.resources[r].allocation[s]

\* A day counter that stays on the last day of the week.
NextDayNoWrap(d) == IF d = 6 THEN 6 ELSE d + 1

NextDay(d) == (d + 1) % 7

SchedulerBody(W, r) ==
    LET d == W.schedPos[r].day
        s == W.schedPos[r].slot
        a == SchedActor(r)
    IN  IF ~DayFlag(r, d)
        THEN \* skip day
             Hold([SetCapacity(W, r, 0) EXCEPT
                      !.schedPos[r] = [day |-> NextDay(d), slot |-> 1]],
                  a, DayTicks)
        ELSE LET W1 == IF Allocation(r, s) # W.capacity[r] \/ W.now = 0
                       THEN SetCapacity(W, r, Allocation(r, s))
                       ELSE W
             IN  Hold([W1 EXCEPT
                          !.schedPos[r] =
                              IF s = 48 THEN [day |-> NextDay(d), slot |-> 1]
                              ELSE [day |-> d, slot |-> s + 1]],
                      a, SlotTicks)

SchedulerStep ==
    /\ CanPop
    /\ Head(evl).a.k = "sched"
    /\ Commit(SchedulerBody(Popped, Head(evl).a.name))

(***************************************************************************)
(* Configurations.                                                         *)
(***************************************************************************)
AllDays == [d \in 1..7 |-> TRUE]
WeekDays == [d \in 1..7 |-> d <= 5]
NotMonday == [d \in 1..7 |-> d # 1]
EveryOtherDay == [d \in 1..7 |-> d % 2 = 0]

AllocConst(n) == [s \in 1..48 |-> n]
\* nothing for the first h hours of the day, n units afterwards
AllocFrom(h, n) == [s \in 1..48 |-> IF s <= 2 * h THEN 0 ELSE n]
AllocWave == [s \in 1..48 |-> IF s % 4 = 1 THEN 1 ELSE IF s % 4 = 2 THEN 2
                               ELSE IF s % 4 = 3 THEN 0 ELSE 1]

ResourceSchedule(flags, alloc) == [day_flags |-> flags, allocation |-> alloc]

ScheduleFixtures ==
    { ResourceSchedule(AllDays, AllocFrom(8, 4)),
      ResourceSchedule(WeekDays, AllocFrom(8, 4)),
      ResourceSchedule(NotMonday, AllocWave),
      ResourceSchedule(EveryOtherDay, AllocConst(1)),
      ResourceSchedule(WeekDays, AllocConst(0)),
      ResourceSchedule(AllDays, AllocWave) }

TaskNames ==
    { "receive_and_sort", "pre_booking_in_investigation",
      "booking_in_internal", "booking_in_external",
      "booking_in_investigation_internal_easy",
      "booking_in_investigation_internal_hard",
      "booking_in_investigation_external", "cut_up_bms", "cut_up_pool",
      "cut_up_large_specimens", "load_bone_station", "decalc",
      "unload_bone_station", "load_into_decalc_oven",
      "unload_from_decalc_oven", "load_processing_machine",
      "unload_processing_machine", "processing_urgent",
      "processing_small_surgicals", "processing_large_surgicals",
      "processing_megas", "embedding", "embedding_cooldown",
      "block_trimming", "microtomy_serials", "microtomy_levels",
      "microtomy_larges", "microtomy_megas",
      "load_staining_machine_regular", "load_staining_machine_megas",
      "staining_regular", "staining_megas",
      "unload_staining_machine_regular", "unload_staining_machine_megas",
      "load_coverslip_machine_regular", "coverslip_regular",
      "coverslip_megas", "unload_coverslip_machine_regular", "labelling",
      "load_scanning_machine_regular", "load_scanning_machine_megas",
      "scanning_regular", "scanning_megas",
      "unload_scanning_machine_regular", "unload_scanning_machine_megas",
      "block_and_quality_check", "assign_histopathologist", "write_report" }

Const(m) == [type |-> "Constant", low |-> m, mode |-> m, high |-> m]
Pert(l, m, h) == [type |-> "PERT", low |-> l, mode |-> m, high |-> h]
Triangular(l, m, h) ==
    [type |-> "Triangular", low |-> l, mode |-> m, high |-> h]
IntConst(m) == [type |-> "IntConstant", low |-> m, mode |-> m, high |-> m]
IntPert(l, m, h) == [type |-> "IntPERT", low |-> l, mode |-> m, high |-> h]

BaseDurations == [n \in TaskNames |-> Const(1)]

BaseBatchSizes ==
    [ deliver_reception_to_cut_up |-> 1, deliver_cut_up_to_processing |-> 1,
      deliver_processing_to_microtomy |-> 1,
      deliver_microtomy_to_staining |-> 1,
      deliver_staining_to_labelling |-> 1,
      deliver_labelling_to_scanning |-> 1, deliver_scanning_to_qc |-> 1,
      bone_station |-> 1, processing_regular |-> 1, processing_megas |-> 1,
      staining_regular |-> 1, staining_megas |-> 1,
      digital_scanning_regular |-> 1, digital_scanning_megas |-> 1 ]

BaseRunnerTimes ==
    [ reception_cutup |-> 1, cutup_processing |-> 1,
      processing_microtomy |-> 1, microtomy_staining |-> 1,
      staining_labelling |-> 1, labelling_scanning |-> 1, scanning_qc |-> 1,
      extra_loading |-> 1, extra_unloading |-> 1 ]

BaseGlobals ==
    [ prob_internal |-> 100, prob_urgent_cancer |-> 0,
      prob_urgent_non_cancer |-> 0, prob_priority_cancer |-> 0,
      prob_priority_non_cancer |-> 0, prob_prebook |-> 0,
      prob_invest_easy |-> 0, prob_invest_hard |-> 0,
      prob_invest_external |-> 0, prob_bms_cutup |-> 100,
      prob_bms_cutup_urgent |-> 100, prob_large_cutup |-> 0,
      prob_large_cutup_urgent |-> 0, prob_pool_cutup |-> 0,
      prob_pool_cutup_urgent |-> 0, prob_mega_blocks |-> 0,
      prob_decalc_bone |-> 0, prob_decalc_oven |-> 0,
      prob_microtomy_levels |-> 100,
      num_blocks_large_surgical |-> IntConst(1),
      num_blocks_mega |-> IntConst(1), num_slides_larges |-> IntConst(1),
      num_slides_levels |-> IntConst(1), num_slides_megas |-> IntConst(1),
      num_slides_serials |-> IntConst(1) ]

\* hourly rates over the week: r in the first h hours, none afterwards
RatesFirst(h, r) == [rates |-> [x \in 1..168 |-> IF x <= h THEN r ELSE 0]]

NoArrivals == RatesFirst(0, 0)

AlwaysOne == ResourceSchedule(AllDays, AllocConst(1))

BaseConfig ==
    [ sim_ticks |-> 12 * HourTicks,
      arrivals |-> [cancer |-> NoArrivals, noncancer |-> NoArrivals],
      resources |-> [r \in Resources |-> AlwaysOne],
      task_durations |-> BaseDurations,
      batch_sizes |-> BaseBatchSizes,
      runner_times |-> BaseRunnerTimes,
      globals |-> BaseGlobals ]

\* Reception under contention: one booking-in staff, receive_and_sort
\* 0.1 h, booking 1 h, urgent and routine specimens; BMS cut-up (the BMS
\* come in at 4 h), small surgical blocks, levels, regular slides.
ReceptionConfig ==
    [BaseConfig EXCEPT
        !.arrivals = [cancer |-> NoArrivals, noncancer |-> RatesFirst(1, 2)],
        !.resources = [r \in Resources |->
                          IF r = "bms"
                          THEN ResourceSchedule(AllDays, AllocFrom(4, 1))
                          ELSE AlwaysOne],
        !.task_durations = [BaseDurations EXCEPT
                               !["booking_in_internal"] = Const(10)],
        !.globals = [BaseGlobals EXCEPT !.prob_urgent_non_cancer = 50],
        !.sim_ticks = 14 * HourTicks]

\* Pool cut-up, decalc oven, large surgical blocks; the booking-in staff
\* is scheduled 0 for hours 0-8 and 4 afterwards; specimens leave reception
\* in batches of two.
PoolConfig ==
    [BaseConfig EXCEPT
        !.arrivals = [cancer |-> RatesFirst(1, 2), noncancer |-> NoArrivals],
        !.resources = [r \in Resources |->
                          IF r = "booking_in_staff"
                          THEN ResourceSchedule(AllDays, AllocFrom(8, 4))
                          ELSE AlwaysOne],
        !.task_durations = [BaseDurations EXCEPT
                               !["booking_in_external"] = Pert(1, 2, 3),
                               !["cut_up_pool"] = Triangular(1, 1, 3)],
        !.batch_sizes = [BaseBatchSizes EXCEPT
                            !.deliver_reception_to_cut_up = 2],
        !.globals = [BaseGlobals EXCEPT
                        !.prob_internal = 0, !.prob_invest_external = 100,
                        !.prob_bms_cutup = 0, !.prob_pool_cutup = 100,
                        !.prob_decalc_oven = 100],
        !.sim_ticks = 20 * HourTicks]

\* Large-specimen cut-up into mega blocks, bone station, mega slides; the
\* staff schedules rise and fall while work is in hand.
MegaConfig ==
    [BaseConfig EXCEPT
        !.arrivals = [cancer |-> NoArrivals, noncancer |-> RatesFirst(1, 2)],
        !.resources = [r \in Resources |->
                          IF r \in {"booking_in_staff", "cut_up_assistant",
                                    "staining_staff"}
                          THEN ResourceSchedule(AllDays, AllocWave)
                          ELSE AlwaysOne],
        !.task_durations = [BaseDurations EXCEPT
                               !["receive_and_sort"] = Const(6),
                               !["booking_in_internal"] = Const(8),
                               !["pre_booking_in_investigation"] = Const(2),
                               !["cut_up_large_specimens"] = Const(6)],
        !.globals = [BaseGlobals EXCEPT
                        !.prob_prebook = 100, !.prob_invest_hard = 100,
                        !.prob_bms_cutup = 0, !.prob_large_cutup = 100,
                        !.prob_decalc_bone = 100,
                        !.num_blocks_mega = IntPert(1, 1, 2),
                        !.num_slides_megas = IntConst(2)],
        !.batch_sizes = [BaseBatchSizes EXCEPT !.staining_megas = 2],
        !.sim_ticks = 16 * HourTicks]

\* Urgent specimens only, cut up by the BMS or in the pool; the processing
\* machine takes blocks in batches of two.
UrgentConfig ==
    [BaseConfig EXCEPT
        !.arrivals = [cancer |-> NoArrivals, noncancer |-> RatesFirst(1, 2)],
        !.batch_sizes = [BaseBatchSizes EXCEPT !.processing_regular = 2],
        !.globals = [BaseGlobals EXCEPT
                        !.prob_urgent_non_cancer = 100,
                        !.prob_bms_cutup_urgent = 50,
                        !.prob_pool_cutup_urgent = 50],
        !.sim_ticks = 6 * HourTicks]

\* No arrivals at all over a week.
\* Two routine specimens, one small surgical block each, one processing
\* machine, and processing-room staff that come and go by the half hour.
ContentionConfig ==
    [BaseConfig EXCEPT
        !.arrivals = [cancer |-> NoArrivals, noncancer |-> RatesFirst(1, 2)],
        !.resources = [r \in Resources |->
                          IF r = "processing_room_staff"
                          THEN ResourceSchedule(AllDays, AllocWave)
                          ELSE AlwaysOne],
        !.task_durations = [BaseDurations EXCEPT
            !.processing_small_surgicals = Const(22)],
        !.sim_ticks = 5 * HourTicks]

ZeroConfig == [BaseConfig EXCEPT !.sim_ticks = WeekTicks]

\* Model.setup: the calendar at t = 0 holds the two arrival generators,
\* then one scheduler per resource in field order, then the processes in
\* registration order; every resource has salabim's default capacity.
InitEvents ==
    [i \in 1..Len(ArrivalGenerators) |->
        [t |-> 0, a |-> AGActor(ArrivalGenerators[i].name)]]
    \o [i \in 1..Len(ResourceOrder) |->
        [t |-> 0, a |-> SchedActor(ResourceOrder[i])]]
    \o [i \in 1..Len(ProcOrder) |-> [t |-> 0, a |-> ProcActor(ProcOrder[i])]]

WipNames ==
    { "total", "in_reception", "in_cut_up", "in_processing", "in_microtomy",
      "in_staining", "in_labelling", "in_scanning", "in_qc", "in_reporting" }

InitWorld ==
    /\ now = 0
    /\ capacity = [r \in Resources |-> DefaultCapacity]
    /\ nclaimed = [r \in Resources |-> 0]
    /\ claims = [a \in Actors |-> <<>>]
    /\ requesters = [r \in Resources |-> <<>>]
    /\ requests = [a \in Actors |-> <<>>]
    /\ capLog = [r \in Resources |-> <<[t |-> 0, x |-> DefaultCapacity]>>]
    /\ schedPos = [r \in Resources |-> [day |-> 0, slot |-> 1]]
    /\ ent = [e \in EntIds |-> NoEnt]
    /\ nextId = 1
    /\ pc = [e \in EntIds |-> Data]
    /\ loc = [e \in EntIds |-> NoLoc]
    /\ store = [n \in ProcNames |-> <<>>]
    /\ waiting = [n \in ProcNames |-> FALSE]
    /\ pitem = [n \in ProcNames |-> 0]
    /\ ploc = [n \in ProcNames |-> NoPLoc]
    /\ wips = [n \in WipNames |-> 0]
    /\ agPos = [n \in AGNames |-> 1]
    /\ honors = <<>>

\* No job submitted: an empty collection, store and queue, idle workers.
NoDoc == [results_ids |-> <<>>, results_kpi_obj_id |-> 0]

Idle == [j |-> -1, i |-> 0, job |-> NoDoc, output |-> -1, obj_id |-> 0]

NoJobs ==
    /\ sim_jobs = NoDoc
    /\ fs = <<>>
    /\ redis = [queue |-> <<>>, status |-> [j \in 0..NumReps |-> "none"]]
    /\ worker = [w \in RqWorkers |-> Idle]

(***************************************************************************)
(* SpecSched: the resource schedulers alone, over more than a week.        *)
(***************************************************************************)
SchedHorizon == WeekTicks + DayTicks

SchedConfigs ==
    { [BaseConfig EXCEPT
          !.sim_ticks = SchedHorizon,
          !.resources = [r \in Resources |->
                            IF r = "qc_staff" THEN f ELSE AlwaysOne]] :
      f \in ScheduleFixtures }

InitSched ==
    /\ cfg \in SchedConfigs
    /\ evl = [i \in 1..Len(ResourceOrder) |->
                 [t |-> 0, a |-> SchedActor(ResourceOrder[i])]]
    /\ InitWorld
    /\ NoJobs

NextSched == SchedulerStep

SpecSched == InitSched /\ [][NextSched]_vars

(***************************************************************************)
(* Spec: the model as Model.setup builds it and Model.run runs it.         *)
(***************************************************************************)
Configs ==
    { ReceptionConfig, PoolConfig, MegaConfig, UrgentConfig, ContentionConfig,
      ZeroConfig }

Init ==
    /\ cfg \in Configs
    /\ evl = InitEvents
    /\ InitWorld
    /\ NoJobs

Next ==
    \/ ArrivalGeneratorStep
    \/ ComponentGeneratorStep
    \/ SchedulerStep
    \/ WorkerStep
    \/ BatcherStep
    \/ CollatorStep
    \/ DeliveryStep
    \/ Specimen_process
    \/ arrive_reception
    \/ booking_in
    \/ cutup_start
    \/ cutup_bms
    \/ cutup_pool
    \/ cutup_large
    \/ processing_start
    \/ decalc_bone_station
    \/ decalc_oven
    \/ processing_assign_queue
    \/ processing_urgents
    \/ processing_smalls
    \/ processing_larges
    \/ processing_megas
    \/ embed_and_trim
    \/ post_processing
    \/ microtomy
    \/ staining_start
    \/ staining_regular
    \/ staining_megas
    \/ post_staining
    \/ labelling
    \/ scanning_start
    \/ scanning_regular
    \/ scanning_megas
    \/ post_scanning
    \/ qc
    \/ assign_histopath
    \/ report

Spec == Init /\ [][Next]_vars

(***************************************************************************)
(* SpecFlood: reception with more specimens, half of them URGENT, two      *)
(* booking-in staff (one can be away as the runner) and a long trip to     *)
(* cut-up, so that the in-store of reception_to_cutup fills up behind a    *)
(* delivery.  No BMS ever comes in: the specimens stop in front of cut-up. *)
(***************************************************************************)
FloodConfig ==
    [BaseConfig EXCEPT
        !.arrivals = [cancer |-> NoArrivals, noncancer |-> RatesFirst(1, 4)],
        !.resources = [r \in Resources |->
                          IF r = "bms"
                          THEN ResourceSchedule(AllDays, AllocConst(0))
                          ELSE IF r = "booking_in_staff"
                          THEN ResourceSchedule(AllDays, AllocConst(2))
                          ELSE AlwaysOne],
        !.runner_times = [BaseRunnerTimes EXCEPT !.reception_cutup = 8],
        !.globals = [BaseGlobals EXCEPT !.prob_urgent_non_cancer = 50],
        !.sim_ticks = 5 * HourTicks]

InitFlood ==
    /\ cfg = FloodConfig
    /\ evl = InitEvents
    /\ InitWorld
    /\ NoJobs

NextFlood ==
    \/ ArrivalGeneratorStep
    \/ FloodGeneratorStep
    \/ SchedulerStep
    \/ WorkerStep
    \/ BatcherStep
    \/ CollatorStep
    \/ DeliveryStep
    \/ Specimen_process
    \/ arrive_reception
    \/ booking_in
    \/ cutup_start
    \/ cutup_bms

SpecFlood == InitFlood /\ [][NextFlood]_vars

(***************************************************************************)
(* SpecBooking: reception under the booking-in investigation settings,     *)
(* with investigation holds of different lengths.  No BMS ever comes in.   *)
(***************************************************************************)
InvestConfig(internal, easy, hard, external) ==
    [BaseConfig EXCEPT
        !.arrivals = [cancer |-> NoArrivals, noncancer |-> RatesFirst(1, 2)],
        !.resources = [r \in Resources |->
                          IF r = "bms"
                          THEN ResourceSchedule(AllDays, AllocConst(0))
                          ELSE AlwaysOne],
        !.task_durations = [BaseDurations EXCEPT
            !.booking_in_investigation_internal_easy = Const(2),
            !.booking_in_investigation_internal_hard = Const(3),
            !.booking_in_investigation_external = Const(4)],
        !.globals = [BaseGlobals EXCEPT
            !.prob_internal = internal, !.prob_invest_easy = easy,
            !.prob_invest_hard = hard, !.prob_invest_external = external],
        !.sim_ticks = 3 * HourTicks]

BookingConfigs ==
    { InvestConfig(100, 50, 100, 0), InvestConfig(100, 50, 30, 0),
      InvestConfig(100, 50, 50, 0), InvestConfig(50, 20, 50, 50) }

InitBooking ==
    /\ cfg \in BookingConfigs
    /\ evl = InitEvents
    /\ InitWorld
    /\ NoJobs

NextBooking ==
    \/ ArrivalGeneratorStep
    \/ ComponentGeneratorStep
    \/ SchedulerStep
    \/ WorkerStep
    \/ BatcherStep
    \/ CollatorStep
    \/ DeliveryStep
    \/ Specimen_process
    \/ arrive_reception
    \/ booking_in
    \/ cutup_start
    \/ cutup_bms

SpecBooking == InitBooking /\ [][NextBooking]_vars

(***************************************************************************)
(* SpecEmpty: large-specimen cut-up into nought, one or two large surgical *)
(* blocks, each cut into nought or one slide.                              *)
(***************************************************************************)
EmptyConfig ==
    [BaseConfig EXCEPT
        !.arrivals = [cancer |-> NoArrivals, noncancer |-> RatesFirst(1, 1)],
        !.globals = [BaseGlobals EXCEPT
                        !.prob_bms_cutup = 0, !.prob_large_cutup = 100,
                        !.prob_mega_blocks = 100,
                        !.num_blocks_large_surgical = IntPert(0, 1, 2),
                        !.num_slides_larges = IntPert(0, 1, 1)],
        !.sim_ticks = 8 * HourTicks]

InitEmpty ==
    /\ cfg = EmptyConfig
    /\ evl = InitEvents
    /\ InitWorld
    /\ NoJobs

NextEmpty ==
    \/ ArrivalGeneratorStep
    \/ ComponentGeneratorStep
    \/ SchedulerStep
    \/ WorkerStep
    \/ BatcherStep
    \/ CollatorStep
    \/ DeliveryStep
    \/ Specimen_process
    \/ arrive_reception
    \/ booking_in
    \/ cutup_start
    \/ cutup_large
    \/ processing_start
    \/ processing_assign_queue
    \/ processing_larges
    \/ embed_and_trim
    \/ post_processing
    \/ microtomy
    \/ staining_start
    \/ staining_regular
    \/ post_staining
    \/ labelling
    \/ scanning_start
    \/ scanning_regular
    \/ post_scanning
    \/ qc
    \/ assign_histopath
    \/ report

SpecEmpty == InitEmpty /\ [][NextEmpty]_vars

(***************************************************************************)
(* SpecScan: urgent and routine specimens, BMS cut-up, one slide each,     *)
(* carried from scanning to QC two at a time.                              *)
(***************************************************************************)
ScanConfig ==
    [BaseConfig EXCEPT
        !.arrivals = [cancer |-> NoArrivals, noncancer |-> RatesFirst(1, 2)],
        !.batch_sizes = [BaseBatchSizes EXCEPT !.deliver_scanning_to_qc = 2],
        !.globals = [BaseGlobals EXCEPT !.prob_urgent_non_cancer = 50],
        !.sim_ticks = 10 * HourTicks]

InitScan ==
    /\ cfg = ScanConfig
    /\ evl = InitEvents
    /\ InitWorld
    /\ NoJobs

NextScan ==
    \/ ArrivalGeneratorStep
    \/ ComponentGeneratorStep
    \/ SchedulerStep
    \/ WorkerStep
    \/ BatcherStep
    \/ CollatorStep
    \/ DeliveryStep
    \/ Specimen_process
    \/ arrive_reception
    \/ booking_in
    \/ cutup_start
    \/ cutup_bms
    \/ processing_start
    \/ processing_assign_queue
    \/ processing_urgents
    \/ processing_smalls
    \/ embed_and_trim
    \/ post_processing
    \/ microtomy
    \/ staining_start
    \/ staining_regular
    \/ post_staining
    \/ labelling
    \/ scanning_start
    \/ scanning_regular
    \/ post_scanning
    \/ qc
    \/ assign_histopath
    \/ report

SpecScan == InitScan /\ [][NextScan]_vars

(***************************************************************************)
(* SpecEmbed: an urgent and a routine specimen, one small surgical block   *)
(* each, and processing-room staff that come and go by the half hour.      *)
(***************************************************************************)
EmbedConfig ==
    [BaseConfig EXCEPT
        !.arrivals = [cancer |-> NoArrivals, noncancer |-> RatesFirst(1, 2)],
        !.resources = [r \in Resources |->
                          IF r = "processing_room_staff"
                          THEN ResourceSchedule(AllDays, AllocWave)
                          ELSE AlwaysOne],
        !.task_durations = [BaseDurations EXCEPT
                               !["embedding"] = Const(4),
                               !["booking_in_internal"] = Const(4)],
        !.globals = [BaseGlobals EXCEPT !.prob_urgent_non_cancer = 50],
        !.sim_ticks = 6 * HourTicks]

InitEmbed ==
    /\ cfg = EmbedConfig
    /\ evl = InitEvents
    /\ InitWorld
    /\ NoJobs

NextEmbed ==
    \/ ArrivalGeneratorStep
    \/ ComponentGeneratorStep
    \/ SchedulerStep
    \/ WorkerStep
    \/ BatcherStep
    \/ CollatorStep
    \/ DeliveryStep
    \/ Specimen_process
    \/ arrive_reception
    \/ booking_in
    \/ cutup_start
    \/ cutup_bms
    \/ processing_start
    \/ processing_assign_queue
    \/ processing_urgents
    \/ processing_smalls
    \/ embed_and_trim
    \/ post_processing
    \/ microtomy

SpecEmbed == InitEmbed /\ [][NextEmbed]_vars

(***************************************************************************)
(* SpecJobs: api.py, one job of NumReps replications on the Redis queue,   *)
(* performed by NumWorkers workers.  A replication's Model is a local of   *)
(* sim_replication; its run either returns the replication's output or     *)
(* raises.  Object ids: None is 0, a GridFS file's id is its index in fs.  *)
(* RQ job idx is sim_replication(job_id, idx); RQ job NumReps is           *)
(* save_dash_objs(job_id), which depends on all the others.                *)
(***************************************************************************)
SaveJob == NumReps

\* model.result_dump() of replication idx
Output(idx) == [kind |-> "result", idx |-> idx]

\* DistributionInfo._enforce_ordering: a Constant passes, the others need
\* low <= mode <= high
enforce_ordering(val) ==
    IF val.type = "Constant" THEN TRUE
    ELSE val.mode >= val.low /\ val.high >= val.mode

\* the probabilities among the global variables, in percent
ProbNames ==
    { "prob_internal", "prob_urgent_cancer", "prob_urgent_non_cancer",
      "prob_priority_cancer", "prob_priority_non_cancer", "prob_prebook",
      "prob_invest_easy", "prob_invest_hard", "prob_invest_external",
      "prob_bms_cutup", "prob_bms_cutup_urgent", "prob_large_cutup",
      "prob_large_cutup_urgent", "prob_pool_cutup", "prob_pool_cutup_urgent",
      "prob_mega_blocks", "prob_decalc_bone", "prob_decalc_oven",
      "prob_microtomy_levels" }

\* Config.from_workbook -> the pydantic validation of the configuration
Validates(config) ==
    /\ config.sim_ticks > 0
    /\ \A s \in DOMAIN config.arrivals :
          /\ Len(config.arrivals[s].rates) = 168
          /\ \A h \in 1..168 : config.arrivals[s].rates[h] >= 0
    /\ \A n \in ProbNames :
          config.globals[n] >= 0 /\ config.globals[n] <= 100
    /\ \A n \in TaskNames :
          LET val == config.task_durations[n]
          IN  /\ val.low >= 0 /\ val.mode >= 0 /\ val.high >= 0
              /\ enforce_ordering(val)

ZeroDivisionError == [type |-> "ZeroDivisionError"]

\* PERT.__init__: _range = high - low, and the shape parameters
\* 1 + 4 (mode - low) / _range and 1 + 4 (high - mode) / _range, kept as
\* the numerators over _range
PERT(low, mode, high) ==
    IF high - low = 0 THEN ZeroDivisionError
    ELSE [type |-> "PERT", range |-> high - low,
          alpha |-> (high - low) + 4 * (mode - low),
          beta |-> (high - low) + 4 * (high - mode)]

\* TaskDurations.from_config: PERT and Tri by type name, everything else
\* Constant(mode)
from_config(config) ==
    [key \in TaskNames |->
        LET val == config.task_durations[key]
        IN  IF val.type = "PERT" THEN PERT(val.low, val.mode, val.high)
            ELSE IF val.type = "Tri"
            THEN [type |-> "Tri", low |-> val.low, mode |-> val.mode,
                  high |-> val.high]
            ELSE [type |-> "Constant", value |-> val.mode]]

\* Model(config): the construction goes through
ModelConstructs(config) ==
    \A key \in TaskNames :
       from_config(config)[key].type # ZeroDivisionError.type

\* new_sim: validate the configuration, insert the job with results_ids =
\* [None] * num_reps, enqueue one sim_replication per idx and save_dash_objs
\* depending on them all.
new_sim ==
    /\ sim_jobs = NoDoc
    /\ IF Validates(cfg)
       THEN /\ sim_jobs' = [results_ids |-> [i \in 1..NumReps |-> 0],
                            results_kpi_obj_id |-> 0]
            /\ redis' = [queue |-> [i \in 1..NumReps |-> i - 1],
                         status |-> [j \in 0..NumReps |->
                                        IF j = SaveJob THEN "deferred"
                                        ELSE "queued"]]
       ELSE UNCHANGED <<sim_jobs, redis>>    \* ValueError: no job
    /\ UNCHANGED <<fs, worker>>

\* Worker.work: an idle worker takes the job at the head of the queue.
RqWork(w) ==
    /\ worker[w].j = -1
    /\ redis.queue # <<>>
    /\ redis' = [queue |-> Tail(redis.queue),
              status |-> [redis.status EXCEPT ![Head(redis.queue)] = "started"]]
    /\ worker' = [worker EXCEPT ![w] = [Idle EXCEPT !.j = Head(redis.queue),
                                                    !.i = 1]]
    /\ UNCHANGED <<sim_jobs, fs>>

\* RQ on an exception in the job: the job is failed, the worker goes on.
\* Jobs depending on a failed job stay deferred.
RqFailed(w) ==
    /\ redis' = [redis EXCEPT !.status[worker[w].j] = "failed"]
    /\ worker' = [worker EXCEPT ![w] = Idle]

\* An RQ that enqueues a deferred job as soon as one of the jobs it depends
\* on is finished.
RqFinishedAny(w) ==
    LET st == [redis.status EXCEPT ![worker[w].j] = "finished"]
        ready == st[SaveJob] = "deferred"
                    /\ \E idx \in Reps : st[idx] = "finished"
    IN  /\ redis' = IF ready
                 THEN [queue |-> Append(redis.queue, SaveJob),
                       status |-> [st EXCEPT ![SaveJob] = "queued"]]
                 ELSE [redis EXCEPT !.status = st]
        /\ worker' = [worker EXCEPT ![w] = Idle]

\* RQ on a return: the job is finished; a deferred job is enqueued once
\* every job it depends on is finished.
RqFinished(w) ==
    LET st == [redis.status EXCEPT ![worker[w].j] = "finished"]
        ready == st[SaveJob] = "deferred"
                    /\ \A idx \in Reps : st[idx] = "finished"
    IN  /\ redis' = IF ready
                 THEN [queue |-> Append(redis.queue, SaveJob),
                       status |-> [st EXCEPT ![SaveJob] = "queued"]]
                 ELSE [redis EXCEPT !.status = st]
        /\ worker' = [worker EXCEPT ![w] = Idle]

\* an update that writes back the whole array of the document read earlier
update_whole_array(doc, job, idx, obj_id) ==
    [doc EXCEPT !.results_ids = [job.results_ids EXCEPT ![idx + 1] = obj_id]]

\* coll.find_one_and_update(..., {'$set': {f'results_ids.{idx}': obj_id}})
update_results_id(doc, job, idx, obj_id) ==
    [doc EXCEPT !.results_ids[idx + 1] = obj_id]

\* sim_replication(job_id, idx), from one database call to the next
sim_replication(w) ==
    LET idx == worker[w].j
        i == worker[w].i
    IN  /\ idx \in Reps
        /\ CASE i = 1 ->      \* find_one, SimJob.model_validate
                   /\ worker' = [worker EXCEPT ![w].job = sim_jobs,
                                               ![w].i = 2]
                   /\ UNCHANGED <<sim_jobs, fs, redis>>
              [] i = 2 ->      \* Model(job.config), run, result_dump
                   \/ /\ ModelConstructs(cfg)
                      /\ worker' = [worker EXCEPT ![w].output = idx,
                                                   ![w].i = 3]
                      /\ UNCHANGED <<sim_jobs, fs, redis>>
                   \/ /\ RqFailed(w)
                      /\ UNCHANGED <<sim_jobs, fs>>
              [] i = 3 ->      \* fs.put(output_bytes)
                   /\ fs' = Append(fs, Output(worker[w].output))
                   /\ worker' = [worker EXCEPT ![w].obj_id = Len(fs) + 1,
                                               ![w].i = 4]
                   /\ UNCHANGED <<sim_jobs, redis>>
              [] OTHER ->      \* find_one_and_update, return
                   /\ sim_jobs' = update_results_id(sim_jobs, worker[w].job,
                                                    idx, worker[w].obj_id)
                   /\ RqFinished(w)
                   /\ UNCHANGED fs

\* get_result(job_id, idx): the file results_ids[idx] names, or a 404
get_result(doc, files, idx) ==
    IF doc.results_ids[idx + 1] = 0 THEN [kind |-> "404", idx |-> idx]
    ELSE files[doc.results_ids[idx + 1]]

\* save_dash_objs(job_id): read every result, put the KPI object
save_dash_objs(w) ==
    /\ worker[w].j = SaveJob
    /\ IF \E idx \in Reps : get_result(sim_jobs, fs, idx).kind = "404"
       THEN /\ RqFailed(w)
            /\ UNCHANGED <<sim_jobs, fs>>
       ELSE /\ fs' = Append(fs, [kind |-> "kpi", idx |-> NumReps])
            /\ sim_jobs' = [sim_jobs EXCEPT
                                !.results_kpi_obj_id = Len(fs) + 1]
            /\ RqFinished(w)

\* A progress that counts every slot, filled or not.
progress_all(doc) == Len(doc.results_ids)

\* get_status: progress = sum(0 if s is None else 1 for s in results_ids)
progress(doc) ==
    Cardinality({i \in 1..Len(doc.results_ids) : doc.results_ids[i] # 0})

\* get_status: max_progress = len(results_ids)
max_progress(doc) == Len(doc.results_ids)

SimUnchanged ==
    UNCHANGED <<cfg, now, evl, capacity, nclaimed, claims, requesters,
                requests, capLog, schedPos, ent, nextId, pc, loc, store,
                waiting, pitem, ploc, wips, agPos, honors>>

\* a PERT duration on a single point, and one with its points out of order
PointConfig ==
    [ReceptionConfig EXCEPT !.task_durations["cut_up_bms"] = Pert(2, 2, 2)]

DisorderConfig ==
    [ReceptionConfig EXCEPT !.task_durations["cut_up_bms"] = Pert(3, 2, 1)]

JobConfigs == { ReceptionConfig, MegaConfig, PointConfig, DisorderConfig }

InitJobs ==
    /\ cfg \in JobConfigs
    /\ evl = InitEvents
    /\ InitWorld
    /\ NoJobs

RqWorkStep == \E w \in RqWorkers : RqWork(w) /\ SimUnchanged

SimReplicationStep == \E w \in RqWorkers : sim_replication(w) /\ SimUnchanged

SaveDashObjsStep == \E w \in RqWorkers : save_dash_objs(w) /\ SimUnchanged

NextJobs ==
    \/ new_sim /\ SimUnchanged
    \/ RqWorkStep
    \/ SimReplicationStep
    \/ SaveDashObjsStep

SpecJobs == InitJobs /\ [][NextJobs]_vars

(***************************************************************************)
(* Properties.                                                             *)
(***************************************************************************)
\* units of r in the claims cl of the actors in S
RECURSIVE SumOver(_, _, _)
SumOver(cl, S, r) ==
    IF S = {} THEN 0
    ELSE LET a == CHOOSE x \in S : TRUE
         IN  SeqSum(SelectSeq(cl[a], LAMBDA c : c.r = r))
             + SumOver(cl, S \ {a}, r)

\* the actors with a claim in cl
Claimers(cl) == {a \in Actors : cl[a] # <<>>}

\* the scheduler of r has taken its step for the current time
SchedRan(r) ==
    \A i \in 1..Len(evl) : evl[i].a = SchedActor(r) => evl[i].t > now

Specimens == {e \in EntIds : ent[e].kind = "Specimen"}

\* the resources of which the last event granted units
Granted ==
    {r \in Resources :
        \E i \in 1..Len(honors) :
           \E j \in 1..Len(honors[i].rqs) : honors[i].rqs[j].r = r}

\* C1, with the capacity clause restricted to grants: at every event
\* boundary the units held by the claimers of a resource add up to its
\* n_claimed, which is never negative; n_claimed
\* is above the capacity only after the scheduler lowered the capacity
\* under claims in flight: no event that grants units of a resource leaves
\* its n_claimed above its capacity.
C1_Conservation ==
    LET S == Claimers(claims)
    IN  \A r \in Resources :
           /\ SumOver(claims, S, r) = nclaimed[r]
           /\ nclaimed[r] >= 0
           /\ nclaimed[r] > capacity[r] => r \notin Granted

\* C1 as stated: the held units add up to n_claimed and n_claimed is at
\* most the capacity at every event boundary.
C1_WithinCapacity ==
    LET S == Claimers(claims)
    IN  \A r \in Resources :
           /\ SumOver(claims, S, r) = nclaimed[r]
           /\ nclaimed[r] <= capacity[r]

\* The scheduler has lowered a capacity under the units in flight.
C1_Witness ==
    \E r \in Resources :
        /\ nclaimed[r] > capacity[r]
        /\ Head(capLog[r]).t = 0
        /\ capLog[r][Len(capLog[r])].x = capacity[r]
        /\ SumOver(claims, Claimers(claims), r) = nclaimed[r]

\* C2: a scheduler step that sets the capacity under the claimed units
\* leaves every actor's claims as they are, and every request honored at
\* any time found claimed + requested <= capacity on each resource.
C2_NoRevocation ==
    [][/\ \A r \in Resources :
             (Head(evl).a = SchedActor(r) /\ capacity'[r] < nclaimed[r])
             => (claims' = claims /\ nclaimed' = nclaimed)
       /\ \A i \in 1..Len(honors') :
             \A j \in 1..Len(honors'[i].rqs) :
                LET h == honors'[i]
                    rq == h.rqs[j]
                IN  h.nclaimed[rq.r] + rq.q <= h.capacity[rq.r]]_vars

\* A capacity under the claimed units, a request waiting, nothing revoked.
C2_Witness ==
    \E r \in Resources :
        /\ capacity[r] < nclaimed[r]
        /\ requesters[r] # <<>>
        /\ SchedRan(r)

\* the capacity the schedule of r prescribes for time t
ScheduledCapacity(r, t) ==
    IF ~DayFlag(r, (t \div DayTicks) % 7) THEN 0
    ELSE Allocation(r, ((t % DayTicks) \div SlotTicks) + 1)

\* C3: once the scheduler of a resource has run at the current time, the
\* capacity is 0 on a day whose flag is false and the allocation of the
\* current half-hour slot otherwise, for as long as the schedulers run
\* (more than a week).
C3_CapacityFollowsSchedule ==
    \A r \in Resources :
        SchedRan(r) => capacity[r] = ScheduledCapacity(r, now)

\* In the second week, on a day following an off-day, a scheduler has
\* skipped set_capacity and the capacity is the positive slot allocation.
C3_Witness ==
    \E r \in Resources :
        /\ SchedRan(r)
        /\ now > WeekTicks
        /\ DayFlag(r, (now \div DayTicks) % 7)
        /\ ~DayFlag(r, ((now \div DayTicks) + 6) % 7)
        /\ capLog[r][Len(capLog[r])].t < now
        /\ capacity[r] > 0
        /\ capacity[r] = ScheduledCapacity(r, now)

\* the resources on the schedule "nothing until 8 h, then 4, every day"
FromEightSchedule == ResourceSchedule(AllDays, AllocFrom(8, 4))

FromEight == {r \in Resources : cfg.resources[r] = FromEightSchedule}

HasSample(log, t, x) == \E i \in 1..Len(log) : log[i] = [t |-> t, x |-> x]

\* C4: of a resource allocated 0 for hours 0-8 and 4 for hours 8-24 every
\* day, no unit is granted before t = 8 h, also not to a task that asks at
\* t = 0; its capacity series has the sample (0, 0) once its scheduler has
\* taken its first step, and the sample (8 h, 4) once it has run at 8 h.
\* (The resource is created with the default capacity, but on the calendar
\* Model.setup builds every scheduler precedes every requester at t = 0:
\* the default capacity is never offered to a request.)
C4_NotBeforeEight ==
    \A r \in FromEight :
        /\ now < 8 * HourTicks => nclaimed[r] = 0 /\ r \notin Granted
        /\ SchedRan(r) => HasSample(capLog[r], 0, 0)
        /\ (SchedRan(r) /\ now >= 8 * HourTicks)
              => HasSample(capLog[r], 8 * HourTicks, 4)

\* A specimen that asked at t = 0 is granted the resource at t = 8 h.
C4_Witness ==
    \E r \in FromEight :
        \E e \in Specimens :
            /\ ent[e].born = 0
            /\ now = 8 * HourTicks
            /\ \E i \in 1..Len(honors) : honors[i].a = EntActor(e)
            /\ r \in Granted
            /\ ent[e].stamps["reception_start"] = 0

\* actor b could have been granted its whole request in snapshot h
Satisfiable(h, b) ==
    /\ h.requests[b] # <<>>
    /\ \A j \in 1..Len(h.requests[b]) :
          h.requests[b][j].q
             <= h.capacity[h.requests[b][j].r] - h.nclaimed[h.requests[b][j].r]

\* position of actor a in the requesters queue q
QueuePos(q, a) == CHOOSE i \in 1..Len(q) : q[i].a = a

\* In no grant of resource units was a pending request of smaller priority
\* on the same resource passed over while it was satisfiable.
PriorityOrder ==
    \A i \in 1..Len(honors) :
       \A j \in 1..Len(honors[i].rqs) :
          LET h == honors[i]
              q == h.requesters[h.rqs[j].r]
          IN  \A n \in 1..Len(q) :
                 (q[n].a # h.a /\ q[n].prio < h.rqs[j].prio)
                 => ~Satisfiable(h, q[n].a)

\* C5, with the FIFO clause under the same proviso: of two requests
\* pending on the same resource the one
\* of smaller priority is granted first whenever both would be
\* satisfiable, and so is, of two requests of equal priority, the one
\* enqueued first.
C5_GrantOrder ==
    /\ PriorityOrder
    /\ \A i \in 1..Len(honors) :
          \A j \in 1..Len(honors[i].rqs) :
             LET h == honors[i]
                 q == h.requesters[h.rqs[j].r]
             IN  \A n \in 1..Len(q) :
                    (n < QueuePos(q, h.a) /\ q[n].prio = h.rqs[j].prio)
                    => ~Satisfiable(h, q[n].a)

\* C5 as stated: the priority order, and no request is granted while a
\* request of equal priority enqueued before it is pending.
C5_StrictFifo ==
    /\ PriorityOrder
    /\ \A i \in 1..Len(honors) :
          \A j \in 1..Len(honors[i].rqs) :
             LET h == honors[i]
                 q == h.requesters[h.rqs[j].r]
             IN  \A n \in 1..Len(q) :
                    n < QueuePos(q, h.a) => q[n].prio # h.rqs[j].prio

\* A request is granted while a satisfiable one of larger priority waits
\* on the same resource.
C5_Witness ==
    \E i \in 1..Len(honors) :
       \E j \in 1..Len(honors[i].rqs) :
          LET h == honors[i]
              q == h.requesters[h.rqs[j].r]
          IN  \E n \in 1..Len(q) :
                 /\ q[n].a # h.a
                 /\ q[n].prio > h.rqs[j].prio
                 /\ Satisfiable(h, q[n].a)

\* C6: with one booking-in staff unit, receive_and_sort 0.1 h and booking
\* 1 h, of an URGENT and a ROUTINE specimen that both arrive at t = 0 the
\* URGENT one has the strictly earlier reception_end, whichever of the two
\* arrives first.
C6_UrgentFirst ==
    cfg = ReceptionConfig =>
       \A u \in Specimens, r \in Specimens :
          ( /\ ent[u].prio = URGENT /\ ent[r].prio = ROUTINE
            /\ ent[u].born = 0 /\ ent[r].born = 0
            /\ ent[r].stamps["reception_end"] >= 0 )
          => /\ ent[u].stamps["reception_end"] >= 0
             /\ ent[u].stamps["reception_end"] < ent[r].stamps["reception_end"]

\* the actors with a joint request (staff and machine together) pending
JointPending == {a \in Actors : Len(requests[a]) >= 2}

\* C7: an actor whose joint request for staff and machine is pending
\* holds no unit of any resource of that request, and an actor whose joint
\* request was granted holds units of every resource of that request.
C7_AllOrNothing ==
    /\ \A a \in JointPending :
          \A j \in 1..Len(requests[a]) :
             ~HasClaim(World, a, requests[a][j].r)
    /\ \A i \in 1..Len(honors) :
          Len(honors[i].rqs) >= 2 =>
             \A j \in 1..Len(honors[i].rqs) :
                Held(World, honors[i].a, honors[i].rqs[j].r)
                   >= honors[i].rqs[j].q

\* A joint request waits although one of its resources has a free unit.
C7_Witness ==
    \E a \in JointPending :
       /\ \E j \in 1..Len(requests[a]) : Free(World, requests[a][j].r) >= 1
       /\ \A j \in 1..Len(requests[a]) :
             ~HasClaim(World, a, requests[a][j].r)

\* entity e is a member of some store
InStore(e) ==
    \E n \in ProcNames : \E i \in 1..Len(store[n]) : store[n][i].e = e

\* C8: no per-entity body ends with a unit still claimed, and an entity
\* that runs no body (in a store, in a batch, in a collation pool or
\* handed to a process) holds no unit.
C8_ReleasedAtEnd ==
    \A e \in EntIds :
       /\ ent[e].leftover = 0
       /\ pc[e] = Data => claims[EntActor(e)] = <<>>

\* A specimen whose booking-in body has claimed staff and ended sits in a
\* store, holding nothing.
C8_Witness ==
    \E e \in Specimens :
       /\ InStore(e)
       /\ ent[e].stamps["reception_end"] >= 0
       /\ ent[e].leftover = 0
       /\ claims[EntActor(e)] = <<>>

\* C9: a specimen of the cancer generator has a priority of the cancer
\* branch (never ROUTINE), a specimen of the non-cancer generator one of
\* the non-cancer branch (never CANCER).
C9_BranchOfGenerator ==
    \A e \in Specimens :
       /\ ent[e].gen = "Arrival Generator (cancer)" => ent[e].prio # ROUTINE
       /\ ent[e].gen = "Arrival Generator (noncancer)" => ent[e].prio # CANCER

\* the rate of generator g for the hour that ends at tick till
RateOfHour(g, till) ==
    cfg.arrivals[AGOf(g).schedule].rates[(((till \div HourTicks) - 1) % 168) + 1]

\* C10: every specimen was created by the sub-generator of an hour whose
\* rate is positive, at a time of that hour (its end included); when all
\* 168 rates are 0 there is, up to 168 h, never a specimen, never work in
\* progress and never a claimed unit.
C10_NoArrivalAtRateZero ==
    /\ \A e \in Specimens :
          /\ RateOfHour(ent[e].gen, ent[e].till) > 0
          /\ ent[e].till - HourTicks <= ent[e].born
          /\ ent[e].born <= ent[e].till
    /\ (\A g \in {"cancer", "noncancer"} :
           \A h \in 1..168 : cfg.arrivals[g].rates[h] = 0)
       => /\ Specimens = {}
          /\ \A w \in WipNames : wips[w] = 0
          /\ \A r \in Resources : nclaimed[r] = 0

\* A specimen was created in an hour of positive rate and the generator
\* has since passed hours of rate 0 without creating another.
C10_Witness ==
    /\ Specimens # {}
    /\ now >= 3 * HourTicks
    /\ \E g \in AGNames :
          /\ agPos[g] > 3
          /\ \A e \in Specimens : ent[e].gen = g /\ ent[e].born <= HourTicks

Batches == {e \in EntIds : ent[e].kind = "Batch"}

\* the batches a batcher is still filling
Filling == {ploc[n].batch : n \in BatcherNames}

\* the members of the store, in_queue or hand of process n
Holds(n, e) ==
    \/ pitem[n] = e
    \/ \E i \in 1..Len(store[n]) : store[n][i].e = e

\* Holds after the step
HoldsNext(n, e) ==
    \/ pitem'[n] = e
    \/ \E i \in 1..Len(store'[n]) : store'[n][i].e = e

\* A batcher that resumes with a pulled entity appends it to the batch it
\* is filling, after the members pulled before; the entity was in no batch
\* of this batcher; the batch goes to the out store when, and only when,
\* it has batch_size members, and the batcher then starts an empty batch.
\* Nothing else changes the members of a batch.
BatchStep ==
    LET n == Head(evl).a.name
        acting == /\ Head(evl).a.k = "proc"
                  /\ n \in BatcherNames
                  /\ pitem[n] # 0
    IN  /\ \A c \in Batches :
              ent'[c].kids # ent[c].kids => acting /\ c = ploc[n].batch
        /\ acting =>
              LET b == ploc[n].batch
                  size == cfg.batch_sizes[BatcherTable[n].size]
              IN  /\ ent'[b].kids = Append(ent[b].kids, pitem[n])
                  /\ Len(ent[b].kids) < size
                  /\ \A c \in Batches : \A i \in 1..Len(ent[c].kids) :
                        ent[c].gen = n => ent[c].kids[i] # pitem[n]
                  /\ IF Len(ent[b].kids) + 1 = size
                     THEN /\ HoldsNext(BatcherTable[n].out, b)
                          /\ ploc'[n].batch # b
                          /\ ent'[ploc'[n].batch].kids = <<>>
                     ELSE /\ ploc'[n].batch = b
                          /\ \A m \in ProcNames : ~HoldsNext(m, b)

\* C11: every batch a batcher pushes downstream has exactly batch_size
\* members, in the order they were pulled; no partial batch is pushed and a
\* pulled entity is a member of exactly one batch of that batcher.
C11_BatchSizeLaw == [][BatchStep]_vars

C11_Witness ==
    \E b \in Batches \ Filling :
       /\ Len(ent[b].kids) = 2
       /\ ent[b].gen = "batcher.reception_to_cutup"
       /\ ent[ent[b].kids[1]].stamps["reception_end"]
             < ent[ent[b].kids[2]].stamps["reception_end"]

\* the members of a sequence
Members(q) == {q[i] : i \in 1..Len(q)}

\* the entities a step puts into the in-queue or hand of process n
Arriving(n) ==
    ({store'[n][i].e : i \in 1..Len(store'[n])} \cup {pitem'[n]})
       \ ({store[n][i].e : i \in 1..Len(store[n])} \cup {pitem[n], 0})

\* the stage a collator closes: the process feeding it and the timestamp
\* the stage after it writes
CollatorFeed(n) ==
    CASE n = "collate.processing" -> {"embed_and_trim"}
      [] n = "collate.staining.slides" -> {"staining_regular", "staining_megas"}
      [] n = "collate.scanning.slides" -> {"scanning_regular", "scanning_megas"}
      [] OTHER -> {}

StageEnd(n) ==
    CASE n = "collate.processing" -> "processing_end"
      [] n = "collate.staining.blocks" -> "staining_end"
      [] OTHER -> "scanning_end"

\* entity e rests: it runs no process and stands in no queue
Resting(e) ==
    /\ pc'[e] = Data
    /\ \A m \in ProcNames : ~HoldsNext(m, e)

\* A collator that resumes with a pulled child keeps it in its pool until
\* it has pulled every child of the parent, then pushes the parent, once,
\* to its out process; until then the parent rests.  A child reaches the
\* collator only from the process that completes it, and nothing but the
\* collator feeds the out process.
CollateStep ==
    LET n == Head(evl).a.name
        acting == /\ Head(evl).a.k = "proc"
                  /\ n \in CollatorNames
                  /\ pitem[n] # 0
    IN  /\ \A c \in CollatorNames :
              /\ Arriving(CollatorTable[c].out) # {} => acting /\ c = n
              /\ CollatorFeed(c) # {} =>
                    \A x \in Arriving(c) :
                       /\ Head(evl).a.k = "ent"
                       /\ pc[Head(evl).a.id].p \in CollatorFeed(c)
                       /\ \/ x = Head(evl).a.id
                          \/ x \in Members(ent[Head(evl).a.id].kids)
        /\ acting =>
              LET item == pitem[n]
                  key == ent[item].parent
                  out == CollatorTable[n].out
                  pulled == {x \in Members(ploc[n].pool) :
                                ent[x].parent = key} \cup {item}
                  kids == Members(ent[key].kids)
              IN  /\ item \notin Members(ploc[n].pool)
                  /\ pulled \subseteq kids
                  /\ ~Holds(out, key)
                  /\ IF pulled = kids
                     THEN /\ Cardinality(kids) = ent[key].num
                          /\ Arriving(out) = {key}
                          /\ ent[key].kind = "Specimen"
                                => ent[key].stamps[StageEnd(n)] < 0
                          /\ \A x \in kids :
                                /\ x \notin Members(ploc'[n].pool)
                                /\ Resting(x)
                     ELSE /\ Arriving(out) = {}
                          /\ item \in Members(ploc'[n].pool)
                          /\ Resting(key)

\* C12: a collator pushes a parent downstream exactly once, and only when
\* it has pulled exactly the expected number of its children; every child
\* comes from the process that completes it (embed_and_trim, staining,
\* scanning), so post_processing and post_staining start only after all
\* blocks, respectively all slides, are done.
C12_CollationCorrect == [][CollateStep]_vars

C12_Witness ==
    \E e \in Specimens :
       /\ Len(ent[e].kids) = 2
       /\ \E b \in Members(ent[e].kids) : Len(ent[b].kids) = 2
       /\ ent[e].stamps["processing_end"] >= 0
       /\ ent[e].stamps["staining_end"] >= 0

\* the step schedules actor a to resume d ticks from now
Wakes(a, d) ==
    \E j \in 1..Len(evl') : evl'[j] = [t |-> Head(evl).t + d, a |-> a]

\* delivery process n has its runner, one unit of it
RunnerHeld(n) ==
    claims[ProcActor(n)] = <<[r |-> DeliveryTable[n].runner, q |-> 1]>>

\* what delivery process n carries: the members of a batch, or the entity
Load(n) ==
    IF ent[ploc[n].e].kind = "Batch" THEN Members(ent[ploc[n].e].kids)
    ELSE {ploc[n].e}

\* A delivery process resumes with the runner at the time it seizes it,
\* holds for collect, outbound leg and unload, enters what it carries in
\* the destination queue, holds for the return leg and only then releases
\* the runner.  Nothing reaches the destination queue at another step of
\* the delivery, and the runner is the delivery's from the seize on.
DeliverStep ==
    /\ \A n \in DeliveryNames : ploc[n].i \in 3..6 => RunnerHeld(n)
    /\ (Head(evl).a.k = "proc" /\ Head(evl).a.name \in DeliveryNames) =>
          LET n == Head(evl).a.name
              a == ProcActor(n)
              d == DeliveryTable[n]
              i == ploc[n].i
              t == cfg.runner_times
          IN  /\ i \in 2..6 => RunnerHeld(n)
              /\ i \in 2..5 => claims'[a] = claims[a]
              /\ i = 2 => Wakes(a, t.extra_loading)
              /\ i = 3 => Wakes(a, t[d.leg])
              /\ i = 4 => Wakes(a, t.extra_unloading)
              /\ i = 5 => Wakes(a, t[d.leg])
              /\ Arriving(d.out) = IF i = 5 THEN Load(n) ELSE {}
              /\ i = 6 => claims'[a] = <<>>

\* C13: what a delivery carries is in the destination in-queue at seize
\* time + collect + outbound + unload, before the return leg; the runner
\* stays claimed through the four holds and is released after the return.
C13_DeliveryTiming == [][DeliverStep]_vars

C13_Witness ==
    \E n \in DeliveryNames :
       /\ ploc[n].i = 6
       /\ ent[ploc[n].e].kind = "Batch"
       /\ RunnerHeld(n)
       /\ cfg.runner_times[DeliveryTable[n].leg] > 0
       /\ \A x \in Load(n) : pc[x] # Data \/ Holds(DeliveryTable[n].out, x)

\* the runner request of delivery process n for what it carries
RunnerRq(n) ==
    <<Rq(DeliveryTable[n].runner,
         IF ent[ploc[n].e].kind = "Batch" THEN ROUTINE
         ELSE ent[ploc[n].e].prio)>>

\* C14: a delivery process requests its runner with the priority of the
\* entity it carries when that is a single specimen, and with ROUTINE when
\* it is a batch; the request is honored as made.
C14_RunnerPriority ==
    \A n \in DeliveryNames :
       /\ requests[ProcActor(n)] # <<>> => requests[ProcActor(n)] = RunnerRq(n)
       /\ \A i \in 1..Len(honors) :
             honors[i].a = ProcActor(n) => honors[i].rqs = RunnerRq(n)

C14_Witness ==
    \E n \in DeliveryNames :
       /\ ploc[n].e # 0
       /\ ent[ploc[n].e].kind = "Specimen"
       /\ ent[ploc[n].e].prio = URGENT
       /\ \E i \in 1..Len(honors) :
             honors[i].a = ProcActor(n) /\ honors[i].rqs[1].prio = URGENT

\* the priority of a batch: URGENT when every member is, else ROUTINE
BatchPrio(b) ==
    IF \A x \in Members(ent[b].kids) : Prio(World, x) = URGENT
    THEN URGENT ELSE ROUTINE

\* C15: a batch is ROUTINE unless all its members are URGENT, and is then
\* URGENT: the delivery that carries it requests the runner with that
\* priority.
C15_BatchPriority ==
    \A n \in DeliveryNames :
       (ploc[n].e # 0 /\ ent[ploc[n].e].kind = "Batch") =>
          /\ requests[ProcActor(n)] # <<>> =>
                requests[ProcActor(n)][1].prio = BatchPrio(ploc[n].e)
          /\ \A i \in 1..Len(honors) :
                honors[i].a = ProcActor(n) =>
                   honors[i].rqs[1].prio = BatchPrio(ploc[n].e)

\* the stages that end with a delivery, by the timestamp that ends them,
\* and the delivery processes of each
StageDeliveries ==
    [ reception_end |-> {"reception_to_cutup"},
      cutup_end |-> {"cutup_bms_to_processing", "cutup_pool_to_processing",
                     "cutup_large_to_processing"},
      processing_end |-> {"processing_to_microtomy"},
      microtomy_end |-> {"microtomy_to_staining"},
      staining_end |-> {"staining_to_labelling"},
      labelling_end |-> {"labelling_to_scanning"} ]

\* the step enters e in the queue of n with priority p, or hands it over
EntersWith(e, n, p) ==
    /\ e \in Arriving(n)
    /\ \A i \in 1..Len(store'[n]) : store'[n][i].e = e => store'[n][i].prio = p

\* The specimen that ends a stage goes to the stage's delivery process with
\* URGENT priority when it is URGENT and to the delivery's batcher when it
\* is not; a delivery receives nothing but URGENT specimens and batches,
\* and its batcher nothing but specimens that are not URGENT.
HandoverStep ==
    /\ Head(evl).a.k = "ent" =>
          LET e == Head(evl).a.id
          IN  \A st \in DOMAIN StageDeliveries :
                 (ent[e].stamps[st] < 0 /\ ent'[e].stamps[st] >= 0) =>
                    IF ent[e].prio = URGENT
                    THEN /\ \E d \in StageDeliveries[st] :
                               EntersWith(e, d, URGENT)
                         /\ \A d \in StageDeliveries[st] :
                               e \notin Arriving("batcher." \o d)
                    ELSE /\ \E d \in StageDeliveries[st] :
                               e \in Arriving("batcher." \o d)
                         /\ \A d \in StageDeliveries[st] :
                               e \notin Arriving(d)
    /\ \A st \in DOMAIN StageDeliveries : \A d \in StageDeliveries[st] :
          /\ \A x \in Arriving(d) :
                \/ ent[x].kind = "Batch"
                \/ ent[x].kind = "Specimen" /\ ent[x].prio = URGENT
          /\ \A x \in Arriving("batcher." \o d) :
                ent[x].kind = "Specimen" /\ ent[x].prio # URGENT

\* C16: at the end of reception, cut-up, processing, microtomy, staining
\* and labelling an URGENT specimen enters the delivery in-queue with URGENT
\* priority and never the batcher; a specimen that is not URGENT enters the
\* batcher and never the delivery in-queue itself.
C16_UrgentSkipsBatcher == [][HandoverStep]_vars

C16_Witness ==
    \E e, f \in Specimens :
       /\ ent[e].prio = URGENT /\ ent[f].prio # URGENT
       /\ ent[e].stamps["labelling_end"] >= 0
       /\ ent[f].stamps["labelling_end"] >= 0

\* actor a is a specimen in process function p
InFunction(a, p) == a.k = "ent" /\ pc[a.id].p = p

\* the requests for booking-in staff that wait in snapshot h, made in
\* arrive_reception
ReceivePending(h) ==
    {n \in 1..Len(h.requesters["booking_in_staff"]) :
        InFunction(h.requesters["booking_in_staff"][n].a, "arrive_reception")}

\* C17: the request a specimen makes for receive_and_sort is one unit of
\* booking-in staff with URGENT priority, whatever the specimen's priority;
\* and no booking_in request of a specimen that is not URGENT is granted
\* while a receive_and_sort request waits for the same staff.
C17_ReceiveFirst ==
    /\ \A e \in Specimens :
          (pc[e].p = "arrive_reception" /\ requests[EntActor(e)] # <<>>)
          => requests[EntActor(e)] = <<Rq("booking_in_staff", URGENT)>>
    /\ \A i \in 1..Len(honors) :
          LET h == honors[i]
          IN  /\ InFunction(h.a, "arrive_reception")
                    => h.rqs = <<Rq("booking_in_staff", URGENT)>>
              /\ (InFunction(h.a, "booking_in") /\ ent[h.a.id].prio # URGENT)
                    => ReceivePending(h) = {}

C17_Witness ==
    \E i \in 1..Len(honors) :
       LET h == honors[i]
           q == h.requesters["booking_in_staff"]
       IN  /\ InFunction(h.a, "arrive_reception")
           /\ ent[h.a.id].prio # URGENT
           /\ \E n \in 1..Len(q) :
                 /\ InFunction(q[n].a, "booking_in")
                 /\ ent[q[n].a.id].prio # URGENT
                 /\ n > QueuePos(q, h.a)

\* the durations task name can take
Durations(name) == {Sample(name, k) : k \in Ks}

\* C18: a task duration of type Triangular or PERT with low < high is
\* sampled over [low, high] and takes values other than the mode; only a
\* Constant duration is always the mode.
C18_DurationLaw ==
    \A name \in TaskNames :
       LET val == cfg.task_durations[name]
       IN  /\ \A d \in Durations(name) : val.low <= d /\ d <= val.high
           /\ (val.type \in {"Triangular", "PERT"} /\ val.low < val.high)
                 => Durations(name) # {val.mode}
           /\ val.type = "Constant" => Durations(name) = {val.mode}

\* the specimens that large-specimen cut-up has cut into blocks
LargeCut ==
    {e \in Specimens : /\ ent[e].cutup_type = "Large specimens"
                       /\ ent[e].stamps["cutup_end"] >= 0}

BlocksAre(e, block_type, count) ==
    /\ \A b \in Members(ent[e].kids) : ent[b].block_type = block_type
    /\ Len(ent[e].kids) \in IntSamples(count)

\* C19: large-specimen cut-up of a specimen that is not URGENT gives mega
\* blocks, num_blocks_mega of them, exactly when u01() < prob_mega_blocks:
\* never when prob_mega_blocks is 0, always when it is 1; otherwise, and
\* always for an URGENT specimen, it gives large surgical blocks,
\* num_blocks_large_surgical of them.
C19_MegaBranch ==
    \A e \in LargeCut :
       /\ (ent[e].prio = URGENT \/ cfg.globals.prob_mega_blocks = 0)
             => BlocksAre(e, "large surgical", "num_blocks_large_surgical")
       /\ (ent[e].prio # URGENT /\ cfg.globals.prob_mega_blocks = 100)
             => BlocksAre(e, "mega", "num_blocks_mega")

\* the timestamps of a specimen in the order of the stages
StampOrder ==
    << "reception_start", "reception_end", "cutup_start", "cutup_end",
       "processing_start", "processing_end", "microtomy_start",
       "microtomy_end", "staining_start", "staining_end", "labelling_start",
       "labelling_end", "scanning_start", "scanning_end", "qc_start",
       "qc_end", "reporting_start", "reporting_end" >>

\* C20: the timestamps of a specimen are in stage order, reception_start
\* <= reception_end <= cutup_start <= ... <= reporting_end, and a timestamp
\* is present only if every earlier one is.
C20_ClockMonotone ==
    \A e \in Specimens :
       \A i \in 1..(Len(StampOrder) - 1) :
          LET earlier == ent[e].stamps[StampOrder[i]]
              later == ent[e].stamps[StampOrder[i + 1]]
          IN  later >= 0 => (earlier >= 0 /\ earlier <= later)

C20_Witness ==
    \E e \in Specimens :
       /\ ent[e].stamps["reporting_end"] > ent[e].stamps["reception_start"]
       /\ ent[e].stamps["reception_start"] > 0

\* C21: no event whose time is past the horizon is processed: the clock,
\* every timestamp of a specimen and every sample of a resource's capacity
\* are at or before the horizon, and what the calendar holds past it stays
\* there.
C21_HorizonBoundary ==
    /\ now <= cfg.sim_ticks
    /\ \A e \in Specimens : \A st \in StampNames :
          ent[e].stamps[st] <= cfg.sim_ticks
    /\ \A r \in Resources : \A i \in 1..Len(capLog[r]) :
          capLog[r][i].t <= cfg.sim_ticks

C21_Witness ==
    /\ evl # <<>>
    /\ Head(evl).t > cfg.sim_ticks
    /\ \E e \in Specimens : ent[e].stamps["reception_start"] >= 0
    /\ \E r \in Resources : Len(capLog[r]) >= 2

\* C22: a replication is determined by its configuration and seed: the
\* configuration being all a Model is built from, the step of an arrival
\* generator has one outcome whatever the random stream draws for the
\* inter-arrival time.
C22_Determinism ==
    (CanPop /\ Head(evl).a.k = "ag") =>
       \A i1 \in IatSamples, i2 \in IatSamples :
          ArrivalGeneratorBody(Popped, Head(evl).a.name, i1)
             = ArrivalGeneratorBody(Popped, Head(evl).a.name, i2)

\* the block type a processing batcher takes from specimens that are not
\* URGENT
BatcherBlockType ==
    [ processing_smalls |-> "small surgical",
      processing_larges |-> "large surgical",
      processing_megas |-> "mega" ]

\* the batches of blocks made by the batcher of processing program p
BatchesFor(p) == {b \in Batches : ent[b].gen = "batcher." \o p}

\* C23: the blocks batched for processing_urgents are the blocks of URGENT
\* specimens, of whatever type; the blocks batched for processing_smalls,
\* processing_larges and processing_megas are not URGENT and of that one
\* type; a full urgents batch has the regular processing batch size.
C23_ProcessingQueues ==
    /\ \A b \in BatchesFor("processing_urgents") :
          /\ \A x \in Members(ent[b].kids) :
                ent[x].kind = "Block" /\ ent[ent[x].parent].prio = URGENT
          /\ b \notin Filling =>
                Len(ent[b].kids) = cfg.batch_sizes.processing_regular
    /\ \A p \in DOMAIN BatcherBlockType :
          \A b \in BatchesFor(p) : \A x \in Members(ent[b].kids) :
             /\ ent[x].kind = "Block"
             /\ ent[ent[x].parent].prio # URGENT
             /\ ent[x].block_type = BatcherBlockType[p]

C23_Witness ==
    /\ cfg.batch_sizes.processing_regular # cfg.batch_sizes.processing_megas
    /\ \E b \in BatchesFor("processing_urgents") \ Filling :
          \E x, y \in Members(ent[b].kids) :
             ent[x].block_type # ent[y].block_type

\* the units of resource r that entity e has claimed, before and after
\* the step
Has(e, r) == Held(World, EntActor(e), r)

HasNext(e, r) ==
    LET c == claims'[EntActor(e)]
    IN  IF \E j \in 1..Len(c) : c[j].r = r
        THEN (CHOOSE x \in Members(c) : x.r = r).q
        ELSE 0

\* A batch of mega slides that resumes after unloading the staining machine
\* gives the machine back and keeps its staff unit; resuming after a
\* coverslip hold it has one staff unit and no machine, pushes the slide it
\* coverslipped, that slide alone, to collate.staining.slides, and gives
\* the staff back after the last slide and not before.
MegaCoverslipStep ==
    (Head(evl).a.k = "ent" /\ pc[Head(evl).a.id].p = "staining_megas"
        /\ pc[Head(evl).a.id].i >= 5) =>
       LET e == Head(evl).a.id
           slides == ent[e].kids
       IN  /\ Has(e, "staining_staff") = 1
           /\ HasNext(e, "staining_machine") = 0
           /\ pc[e].i = 5 =>
                 /\ Has(e, "staining_machine") = 1
                 /\ HasNext(e, "staining_staff") = 1
                 /\ Arriving("collate.staining.slides") = {}
                 /\ \E k \in Ks :
                       Wakes(EntActor(e), Sample("coverslip_megas", k))
           /\ pc[e].i = 6 =>
                 /\ Has(e, "staining_machine") = 0
                 /\ Arriving("collate.staining.slides") = {slides[loc[e].i]}
                 /\ HasNext(e, "staining_staff")
                       = IF loc[e].i = Len(slides) THEN 0 ELSE 1

\* C24: on the mega staining path the batch gives the staining machine back
\* after the unload hold and keeps one staining-staff unit; through every
\* manual coverslip hold it has one staff unit and no machine; each slide
\* goes to collate.staining.slides right after its own hold and the staff
\* is released only after the last slide.
C24_MegaCoverslip == [][MegaCoverslipStep]_vars

C24_Witness ==
    \E e \in Batches :
       /\ pc[e].p = "staining_megas" /\ pc[e].i = 6
       /\ loc[e].i = 2 /\ Len(ent[e].kids) = 2
       /\ Has(e, "staining_staff") = 1

RECURSIVE NumSum(_, _)
NumSum(en, blocks) ==
    IF blocks = <<>> THEN 0
    ELSE en[Head(blocks)].num + NumSum(en, Tail(blocks))

RECURSIVE KidSum(_, _)
KidSum(en, blocks) ==
    IF blocks = <<>> THEN 0
    ELSE Len(en[Head(blocks)].kids) + KidSum(en, Tail(blocks))

\* the Slide entities of en that descend from specimen e
SlidesFor(en, e) ==
    {s \in EntIds : en[s].kind = "Slide" /\ en[s].parent # 0
                    /\ en[en[s].parent].parent = e}

SlideTypesOf(block_type) ==
    IF block_type = "small surgical" THEN {"levels", "serials"}
    ELSE IF block_type = "large surgical" THEN {"larges"}
    ELSE {"megas"}

\* block b of specimen e has just been cut: its slides and the counts
Cut(e, b) ==
    /\ ent[b].kids = <<>>
    /\ ent'[b].num = Len(ent'[b].kids)
    /\ ent'[e].total_slides = ent[e].total_slides + ent'[b].num
    /\ SlidesFor(ent', e) \ SlidesFor(ent, e) = Members(ent'[b].kids)
    /\ Cardinality(Members(ent'[b].kids)) = Len(ent'[b].kids)
    /\ \A s \in Members(ent'[b].kids) :
          /\ ent'[s].parent = b
          /\ ent'[s].slide_type \in SlideTypesOf(ent[b].block_type)
          /\ ent'[s].slide_type = ent'[Head(ent'[b].kids)].slide_type

\* the totals of specimen e in the next state
TotalsAgree(e) ==
    /\ ent'[e].total_slides = NumSum(ent', ent'[e].kids)
    /\ ent'[e].total_slides = KidSum(ent', ent'[e].kids)
    /\ ent'[e].total_slides = Cardinality(SlidesFor(ent', e))
    /\ ent'[e].stamps["microtomy_end"] = now'

HonoredNext(a) == \E j \in 1..Len(honors') : honors'[j].a = a

PendingNext(a, r) ==
    \E j \in 1..Len(requests'[a]) : requests'[a][j].r = r

\* A specimen in microtomy holds no staff when it starts, exactly one staff
\* unit when it resumes for a block, and after cutting a block it has given
\* that unit back: it leaves with none, or waits for the next block's unit,
\* or was granted a new one in the same event.
MicrotomyStep ==
    (Head(evl).a.k = "ent" /\ pc[Head(evl).a.id].p = "microtomy") =>
       LET e == Head(evl).a.id
           a == EntActor(e)
           blocks == ent[e].kids
       IN  /\ pc[e].i = 0 =>
                 /\ Has(e, "microtomy_staff") = 0
                 /\ SlidesFor(ent, e) = {}
           /\ pc[e].i = 1 =>
                 /\ Has(e, "microtomy_staff") = 1
                 /\ HasNext(e, "microtomy_staff") = 1
                 /\ ent' = ent
           /\ pc[e].i = 2 =>
                 /\ Has(e, "microtomy_staff") = 1
                 /\ Cut(e, blocks[loc[e].i])
                 /\ IF loc[e].i = Len(blocks)
                    THEN /\ HasNext(e, "microtomy_staff") = 0
                         /\ ~PendingNext(a, "microtomy_staff")
                         /\ TotalsAgree(e)
                    ELSE \/ /\ HasNext(e, "microtomy_staff") = 0
                            /\ PendingNext(a, "microtomy_staff")
                         \/ /\ HasNext(e, "microtomy_staff") = 1
                            /\ HonoredNext(a)

\* C25: each block cut in microtomy gets num_slides Slide entities of the
\* type its block_type determines and adds num_slides to total_slides, so
\* after the last block total_slides is the sum of the blocks' num_slides
\* and the number of Slide entities of the specimen; the microtomy staff is
\* seized for a block and released after it, never kept for the next one.
C25_SlideAccounting == [][MicrotomyStep]_vars

C25_Witness ==
    \E e \in Specimens :
       /\ ent[e].stamps["microtomy_end"] >= 0
       /\ Len(ent[e].kids) >= 2
       /\ ent[e].total_slides >= 3
       /\ ent[e].total_slides = Cardinality(SlidesFor(ent, e))

\* the replications whose result id differs between the two states
Written ==
    {idx \in Reps : sim_jobs'.results_ids[idx + 1]
                        # sim_jobs.results_ids[idx + 1]}

\* the RQ jobs that fail in this step
Failing ==
    {j \in 0..NumReps : redis'.status[j] = "failed"
                           /\ redis.status[j] # "failed"}

\* the workers whose locals differ between the two states
Touched == {w \in RqWorkers : worker'[w] # worker[w]}

\* in the next state, the stored result of idx can be fetched and is the
\* output of replication idx
Retrievable(idx) == get_result(sim_jobs', fs', idx) = Output(idx)

IsolationStep ==
    sim_jobs.results_ids # <<>> =>
       /\ \A idx \in Written :
             /\ Written = {idx}
             /\ sim_jobs.results_ids[idx + 1] = 0
             /\ \E w \in RqWorkers : worker[w].j = idx /\ worker[w].i = 4
       /\ \A j \in Failing :
             /\ sim_jobs' = sim_jobs
             /\ fs' = fs
             /\ redis'.queue = redis.queue
             /\ \A k \in 0..NumReps \ {j} : redis'.status[k] = redis.status[k]
             /\ \A w \in Touched : worker[w].j = j
       /\ Cardinality(Touched) <= 1
       /\ \A i \in 1..Len(fs) : fs'[i] = fs[i]
       /\ \A idx \in Reps :
             /\ redis'.status[idx] = "finished" => Retrievable(idx)
             /\ sim_jobs.results_ids[idx + 1] # 0 => Retrievable(idx)

\* C26: a replication that fails changes nothing but its own RQ status and
\* its worker; results_ids[idx] is written by replication idx alone, once;
\* no step touches the locals (the Model among them) of two workers; and the
\* result of every finished replication stays stored under results_ids[idx]
\* and is what get_result returns, whatever happens to the others.
C26_ReplicationIsolation == [][IsolationStep]_vars

\* one replication has failed while another was writing its result, and a
\* third has finished: its result is there
C26_Witness ==
    /\ sim_jobs.results_ids # <<>>
    /\ \E a \in Reps, b \in Reps, c \in Reps :
          /\ redis.status[a] = "failed"
          /\ redis.status[b] = "started"
          /\ \E w \in RqWorkers : worker[w].j = b /\ worker[w].i = 4
          /\ redis.status[c] = "finished"
          /\ get_result(sim_jobs, fs, c) = Output(c)
          /\ get_result(sim_jobs, fs, a).kind = "404"

DeliveryKinds(n) == [i \in 1..Len(store[n]) |-> ent[store[n][i].e].kind]

\* C27: in the in-store of a delivery process no Batch stands in front of an
\* URGENT specimen: the delivery pulls from the head, so every URGENT
\* specimen in the store is pulled before any Batch that is in the store
\* with it, whatever the order of the pushes.
C27_UrgentFirst ==
    \A n \in DeliveryNames :
       \A i \in 1..Len(store[n]), j \in 1..Len(store[n]) :
          (i < j /\ ent[store[n][i].e].kind = "Batch")
             => ~(ent[store[n][j].e].kind = "Specimen"
                    /\ ent[store[n][j].e].prio = URGENT)

\* the step ends the process of entity e
Ends(e) == pc'[e] = Data

\* A specimen that resumes booking_in after the booking hold takes the easy
\* hold, the hard hold, the external hold or none, as one draw u decides
\* against the thresholds; after an investigation hold it takes no other.
InvestStep ==
    (Head(evl).a.k = "ent" /\ pc[Head(evl).a.id].p = "booking_in"
        /\ pc[Head(evl).a.id].i >= 3) =>
       LET e == Head(evl).a.id
           g == cfg.globals
           internal == ent[e].source = "Internal"
           easy == Wakes(EntActor(e),
                      Sample("booking_in_investigation_internal_easy", "low"))
           hard == Wakes(EntActor(e),
                      Sample("booking_in_investigation_internal_hard", "low"))
           external == Wakes(EntActor(e),
                      Sample("booking_in_investigation_external", "low"))
           none == Ends(e) /\ ent'[e].stamps["reception_end"] = now'
       IN  IF pc[e].i = 3
           THEN /\ \E u \in USamples :
                      IF internal
                      THEN /\ easy <=> u < g.prob_invest_easy
                           /\ hard <=> (g.prob_invest_easy <= u
                                          /\ u < g.prob_invest_hard)
                           /\ ~external
                      ELSE /\ external <=> u < g.prob_invest_external
                           /\ ~easy /\ ~hard
                /\ none <=> ~(easy \/ hard \/ external)
                /\ ~(easy /\ hard) /\ ~(easy /\ external)
                /\ ~(hard /\ external)
                /\ (internal /\ g.prob_invest_hard <= g.prob_invest_easy)
                      => ~hard
           ELSE none

CollatePullStep ==
    (Head(evl).a.k = "proc" /\ Head(evl).a.name \in CollatorNames
        /\ pitem[Head(evl).a.name] # 0) =>
       LET n == Head(evl).a.name
           item == pitem[n]
           key == ent[item].parent
           pooled == SelectSeq(ploc[n].pool, LAMBDA x : ent[x].parent = key)
       IN  /\ key # 0
           /\ ent[key].kind = IF CollatorTable[n].count_attr = "num_blocks"
                              THEN "Specimen" ELSE "Block"
           /\ ent[key].num >= 1
           /\ ent[key].num = Len(ent[key].kids)
           /\ item \in Members(ent[key].kids)
           /\ Len(pooled) < ent[key].num

\* C29: whenever a collation process pulls a child, the expected count of
\* the child's parent (num_blocks of the specimen, num_slides of the block)
\* has been set, so the pooled children can reach it.
C29_CountSet == [][CollatePullStep]_vars

C29_Witness ==
    /\ pitem["collate.staining.slides"] # 0
    /\ ent[ent[pitem["collate.staining.slides"]].parent].num >= 2
    /\ \E e \in Specimens : ent[e].num >= 2
                             /\ ent[e].stamps["processing_end"] >= 0

Machines ==
    { "bone_station", "processing_machine", "staining_machine",
      "coverslip_machine", "scanning_machine_regular",
      "scanning_machine_megas" }

\* the actors that wait for r while they hold something
WaitingHolders(r) ==
    { requesters[r][j].a : j \in { i \in 1..Len(requesters[r]) :
                                     claims[requesters[r][i].a] # <<>> } }

\* the actors that wait for anything
Waiters ==
    UNION { { requesters[r][j].a : j \in 1..Len(requesters[r]) } :
            r \in Resources }

\* C30: an actor that waits while it holds something holds machines only
\* and waits for one staff resource alone; no unit of that staff is free
\* while it waits, whoever else waits for the staff, so it is granted the
\* staff as soon as a unit is free; and no holder of that staff waits for
\* anything, so no cycle of actors waiting for each other exists.
C30_NoHoldAndWait ==
    \A r \in Resources :
       \A a \in WaitingHolders(r) :
          /\ r \notin Machines
          /\ requests[a] # <<>>
          /\ \A j \in 1..Len(requests[a]) : requests[a][j].r = r
          /\ \A j \in 1..Len(claims[a]) : claims[a][j].r \in Machines
          /\ Free(World, r) < 1
          /\ \A b \in Waiters : ~HasClaim(World, b, r)

\* a batch that holds a machine waits for the staff to unload, behind a
\* batch that waits for the staff and that machine together
C30_Witness ==
    \E r \in Resources :
       \E j \in 1..Len(requesters[r]) :
          LET a == requesters[r][j].a
          IN  /\ claims[a] # <<>>
              /\ \E n \in 1..(j - 1) :
                    LET b == requesters[r][n].a
                    IN  /\ Len(requests[b]) = 2
                        /\ \E i \in 1..2 :
                              HasClaim(World, a, requests[b][i].r)

\* the run is over: no event is left within the horizon
Halted == ~CanPop

\* specimens cut up into no block at all
NoBlocks ==
    {e \in Specimens : ent[e].stamps["cutup_end"] >= 0 /\ ent[e].num = 0}

\* specimens through microtomy with a block that gave no slide
NoSlides ==
    {e \in Specimens :
        /\ ent[e].stamps["microtomy_end"] >= 0
        /\ \E i \in 1..Len(ent[e].kids) : ent[ent[e].kids[i]].num = 0}

\* C31: a collator passes a parent on only when one of its children comes
\* in and completes the expected count, so a specimen cut up into no block
\* never gets processing_end and a specimen with a block of no slide never
\* gets staining_end; neither is ever reported, and both stay in the total
\* work in progress.
C31_EmptyNeverCollated ==
    /\ \A e \in NoBlocks :
          /\ ent[e].stamps["processing_end"] = -1
          /\ ent[e].stamps["reporting_end"] = -1
    /\ \A e \in NoSlides :
          /\ ent[e].stamps["staining_end"] = -1
          /\ ent[e].stamps["reporting_end"] = -1
    /\ wips["total"] >= Cardinality(NoBlocks \cup NoSlides)

C31_Witness ==
    /\ Halted
    /\ NoBlocks # {}
    /\ NoSlides # {}
    /\ wips["total"] = 2
    /\ \A a \in NoBlocks : ent[a].stamps["processing_start"] >= 0
    /\ \A b \in NoSlides : ent[b].stamps["staining_start"] >= 0

\* the entities executing the body of worker n
InBody(n) == {e \in EntIds : pc[e].p = n}

\* the clock moves on with this step
TimeAdvances == now' > now

\* C32: a worker activates the entity it pulled and pulls again at once,
\* without waiting for the body to end: whenever the clock moves on, the
\* in-store of every worker is empty, whatever the number of entities
\* still executing its body.
C32_WorkersNeverQueue ==
    [][TimeAdvances => \A n \in WorkerNames : store[n] = <<>>]_vars

C32_Witness ==
    \E n \in WorkerNames :
       /\ Cardinality(InBody(n)) >= 2
       /\ \A e \in InBody(n) : e \in Specimens /\ pc[e].i > 0
       /\ store[n] = <<>>
       /\ waiting[n]
       /\ now > 0

\* delivery n takes an entity out of its in-store in this step
DeliveryPulls(n) == pitem[n] = 0 /\ pitem'[n] # 0

\* the delivery is between two deliveries: nothing carried, nothing
\* claimed, nothing requested
DeliveryFree(n, items, cl, rqs) ==
    /\ items[n].e = 0
    /\ cl[ProcActor(n)] = <<>>
    /\ rqs[ProcActor(n)] = <<>>

DeliveryOneAtATime ==
    \A n \in DeliveryNames :
       /\ DeliveryPulls(n) => DeliveryFree(n, ploc', claims', requests')
       /\ SeqSum(claims'[ProcActor(n)]) <= 1
       /\ ploc'[n].e # 0 => pitem'[n] = 0

\* C33: a delivery handles one entity at a time: it pulls from its in-store
\* only with the runner of the previous delivery released after the return
\* leg, it never has more than one unit of its runner, and what comes in
\* meanwhile waits in its in-store.
C33_OneDelivery == [][DeliveryOneAtATime]_vars

C33_Witness ==
    \E n \in DeliveryNames :
       /\ ploc[n].e # 0
       /\ ploc[n].i = 6
       /\ SeqSum(claims[ProcActor(n)]) = 1
       /\ store[n] # <<>>
       /\ ~waiting[n]

\* the batches the delivery from scanning to QC is given are full
FullBatches ==
    \A x \in Arriving("scanning_to_qc") :
       /\ ent'[x].kind = "Batch"
       /\ Len(ent'[x].kids) = cfg.batch_sizes.deliver_scanning_to_qc

ScanHandoverStep ==
    /\ FullBatches
    /\ Head(evl).a.k = "ent" =>
          LET e == Head(evl).a.id
          IN  (ent[e].stamps["scanning_end"] < 0
                  /\ ent'[e].stamps["scanning_end"] >= 0) =>
                 /\ EntersWith(e, "batcher.scanning_to_qc", ent[e].prio)
                 /\ e \notin Arriving("scanning_to_qc")

\* C34: post_scanning pushes every specimen, the URGENT ones too, into
\* batcher.scanning_to_qc with its own priority and never into the in-store
\* of the delivery scanning_to_qc, which is given full batches only: an
\* URGENT specimen goes to QC when deliver_scanning_to_qc specimens have
\* come together.
C34_UrgentBatchedToQc == [][ScanHandoverStep]_vars

\* an URGENT specimen, alone in the batch being made, long after scanning
C34_Witness ==
    \E e \in Specimens :
       LET b == ploc["batcher.scanning_to_qc"].batch
       IN  /\ ent[e].prio = URGENT
           /\ ent[e].stamps["scanning_end"] >= 0
           /\ now > ent[e].stamps["scanning_end"]
           /\ ent[e].stamps["qc_start"] = -1
           /\ b # 0
           /\ ent[b].kids = <<e>>
           /\ cfg.batch_sizes.deliver_scanning_to_qc = 2

\* the stage counters with the timestamps that open and close each stage
WipStages ==
    [ in_reception |-> <<"reception_start", "reception_end">>,
      in_cut_up |-> <<"cutup_start", "cutup_end">>,
      in_processing |-> <<"processing_start", "processing_end">>,
      in_microtomy |-> <<"microtomy_start", "microtomy_end">>,
      in_staining |-> <<"staining_start", "staining_end">>,
      in_labelling |-> <<"labelling_start", "labelling_end">>,
      in_scanning |-> <<"scanning_start", "scanning_end">>,
      in_qc |-> <<"qc_start", "qc_end">>,
      in_reporting |-> <<"reporting_start", "reporting_end">> ]

\* the specimens past the timestamp from and not yet at the timestamp to
Between(from, to) ==
    {e \in Specimens : ent[e].stamps[from] >= 0 /\ ent[e].stamps[to] = -1}

RECURSIVE WipSum(_)
WipSum(names) ==
    IF names = {} THEN 0
    ELSE LET n == CHOOSE x \in names : TRUE
         IN  wips[n] + WipSum(names \ {n})

\* C35: at every event boundary no counter of work in progress is negative,
\* the total is the number of specimens that have started arrive_reception
\* and not ended report, each stage counter is the number of specimens
\* between the stage's two timestamps, and the total is at least the sum
\* of the nine stage counters.
C35_WipAccounting ==
    /\ \A n \in WipNames : wips[n] >= 0
    /\ wips["total"] = Cardinality(Between("reception_start", "reporting_end"))
    /\ \A n \in DOMAIN WipStages :
          wips[n] = Cardinality(Between(WipStages[n][1], WipStages[n][2]))
    /\ wips["total"] >= WipSum(DOMAIN WipStages)

\* one specimen reported, the other on its way between two stages
C35_Witness ==
    /\ wips["total"] = 1
    /\ WipSum(DOMAIN WipStages) = 0
    /\ \E e \in Specimens : ent[e].stamps["reporting_end"] >= 0
    /\ \E e \in Specimens :
          /\ ent[e].stamps["reception_end"] >= 0
          /\ ent[e].stamps["reporting_start"] = -1

\* the batchers in front of the deliveries
DeliveryBatchers == {n \in BatcherNames : BatcherTable[n].out \in DeliveryNames}

\* a delivery has the entity with it until it unloads
Carries(n, e) == ploc[n].e = e /\ ploc[n].i <= 5

\* the batches being made, waiting for their delivery or on their way
LiveBatches ==
    {b \in {ploc[n].batch : n \in DeliveryBatchers}
           \cup UNION {{store[d][i].e : i \in 1..Len(store[d])} \cup {pitem[d]}
                          \cup {x \in {ploc[d].e} : Carries(d, x)} :
                       d \in DeliveryNames} :
        b # 0 /\ ent[b].kind = "Batch"}

\* the members of all stores and the members of the batches in live, by
\* place
Stored == UNION {{<<n, i>> : i \in 1..Len(store[n])} : n \in ProcNames}

Batched(live) == UNION {{<<b, i>> : i \in 1..Len(ent[b].kids)} : b \in live}

\* the places entity e is in: members of stores, hands of processes,
\* deliveries under way, members of live batches, its own running body
CopiesIn(e, stored, batched) ==
    Cardinality({x \in stored : store[x[1]][x[2]].e = e})
    + Cardinality({n \in ProcNames : pitem[n] = e})
    + Cardinality({n \in DeliveryNames : Carries(n, e)})
    + Cardinality({x \in batched : ent[x[1]].kids[x[2]] = e})
    + (IF pc[e] # Data THEN 1 ELSE 0)

Copies(e) == CopiesIn(e, Stored, Batched(LiveBatches))

\* the timestamps between which a specimen is on its way to the next stage
Transits ==
    { <<"reception_end", "cutup_start">>, <<"cutup_end", "processing_start">>,
      <<"processing_end", "microtomy_start">>,
      <<"microtomy_end", "staining_start">>,
      <<"staining_end", "labelling_start">>,
      <<"labelling_end", "scanning_start">>, <<"scanning_end", "qc_start">> }

InTransit ==
    {e \in Specimens :
        \E tr \in Transits :
           ent[e].stamps[tr[1]] >= 0 /\ ent[e].stamps[tr[2]] = -1}

\* a specimen on its way is in one place, a live batch in one at most
Conserved ==
    LET live == LiveBatches
        stored == Stored
        batched == Batched(live)
    IN  /\ \A e \in InTransit : CopiesIn(e, stored, batched) = 1
        /\ \A b \in live : CopiesIn(b, stored, batched) <= 1

\* the number of times e is in the in-store or the hand of n, before and
\* after the step
Has1(q, h, e) ==
    Cardinality({i \in 1..Len(q) : q[i].e = e}) + (IF h = e THEN 1 ELSE 0)

\* a delivery that unloads puts every item of what it carries into the
\* in-store of its destination, once, and nothing else
UnloadStep ==
    \A n \in DeliveryNames :
       (ploc[n].i = 5 /\ ploc'[n].i = 6) =>
          LET e == ploc[n].e
              out == DeliveryTable[n].out
              items == IF ent[e].kind = "Batch" THEN ent[e].kids ELSE <<e>>
          IN  /\ \A j \in 1..Len(items) :
                    /\ Has1(store[out], pitem[out], items[j]) = 0
                    /\ Has1(store'[out], pitem'[out], items[j]) = 1
              /\ Len(store'[out]) + (IF pitem'[out] # 0 THEN 1 ELSE 0)
                    = Len(store[out]) + (IF pitem[out] # 0 THEN 1 ELSE 0)
                         + Len(items)

\* C36: what a batcher pulls goes into the in-store of the delivery's
\* destination exactly once, when the batch is unloaded; on the way from
\* one stage to the next a specimen is never lost, never duplicated and
\* never in two stores at the same time.
C36_Conservation == []Conserved /\ [][UnloadStep]_vars

\* a batch of two just unloaded, the runner on the way back
C36_Witness ==
    \E n \in DeliveryNames :
       /\ ploc[n].i = 6
       /\ ent[ploc[n].e].kind = "Batch"
       /\ Len(ent[ploc[n].e].kids) = 2
       /\ \A j \in 1..2 :
             /\ ent[ploc[n].e].kids[j] \in InTransit
             /\ Copies(ent[ploc[n].e].kids[j]) = 1

\* the requesters queue of the processing-room staff
StaffQueue == requesters["processing_room_staff"]

\* member i of the staff's queue is a block in embed_and_trim
Embedding(q, i) ==
    /\ q[i].a.k = "ent"
    /\ ent[q[i].a.id].kind = "Block"
    /\ pc[q[i].a.id].p = "embed_and_trim"

\* a routine block waits for the staff in front of an urgent one
RoutineAhead ==
    \E i, j \in 1..Len(StaffQueue) :
       /\ i < j
       /\ Embedding(StaffQueue, i)
       /\ Embedding(StaffQueue, j)
       /\ Prio(World, StaffQueue[i].a.id) = ROUTINE
       /\ Prio(World, StaffQueue[j].a.id) = URGENT

\* the bodies whose requests name no priority
NoPrioBodies ==
    { "decalc_bone_station", "decalc_oven", "processing_smalls",
      "processing_larges", "processing_megas", "embed_and_trim",
      "staining_regular", "staining_megas", "scanning_regular",
      "scanning_megas" }

\* the actors of a requesters queue
Queued(q) == {q[i].a : i \in 1..Len(q)}

\* a request without priority is queued as such, behind every request with
\* a priority, and at the tail when it comes in
NoPrioQueued(q, q2, pcs) ==
    /\ \A i \in 1..Len(q2) :
          (q2[i].a.k = "ent" /\ pcs[q2[i].a.id].p \in NoPrioBodies)
             => q2[i].prio = NoPriority
    /\ \A i, j \in 1..Len(q2) : i < j => q2[i].prio <= q2[j].prio
    /\ \A i \in 1..Len(q2) :
          (q2[i].prio = NoPriority /\ q2[i].a \notin Queued(q)) => i = Len(q2)

\* of two blocks waiting for the staff in embed_and_trim, the one behind
\* is not served before the one in front
EmbedFifo(q, q2) ==
    \A i, j \in 1..Len(q) :
       (i < j /\ Embedding(q, i) /\ Embedding(q, j)
          /\ q[j].a \notin Queued(q2)) => q[i].a \notin Queued(q2)

NoPrioStep ==
    /\ \A r \in Resources : NoPrioQueued(requesters[r], requesters'[r], pc')
    /\ EmbedFifo(StaffQueue, requesters'["processing_room_staff"])

Completes(w) == worker[w].j \in Reps /\ worker[w].i = 4

\* the slots of the job's results_ids before and after a step: a filled
\* slot keeps its file, and a completing replication fills its own slot,
\* which was empty, and no other
SlotsStep(old, new) ==
    /\ \A i \in 1..Len(old) : old[i] # 0 => new[i] = old[i]
    /\ \A w \in RqWorkers :
          Completes(w) /\ worker'[w] = Idle =>
             /\ old[worker[w].j + 1] = 0
             /\ new = [old EXCEPT ![worker[w].j + 1] = worker[w].obj_id]
             /\ worker[w].obj_id # 0
    /\ (\A w \in RqWorkers : ~(Completes(w) /\ worker'[w] = Idle)) =>
          (old = new \/ old = <<>>)

ProgressStep ==
    /\ SlotsStep(sim_jobs.results_ids, sim_jobs'.results_ids)
    /\ progress(sim_jobs') >= progress(sim_jobs)
    /\ progress(sim_jobs') <= max_progress(sim_jobs')
    /\ sim_jobs' # NoDoc => max_progress(sim_jobs') = NumReps
    /\ sim_jobs = NoDoc => progress(sim_jobs') = 0
    /\ progress(sim_jobs')
          = Cardinality({idx \in Reps : redis'.status[idx] = "finished"})

\* C38: results_ids starts as num_reps empty slots; a completed replication
\* idx fills slot idx only, concurrent completions overwrite and lose
\* nothing, and the progress reported, the number of filled slots, never
\* goes down, never exceeds max_progress = num_reps, and is num_reps once
\* every replication has completed.
C38_Progress == [][ProgressStep]_vars

\* every replication has completed: all slots filled, each with a file of
\* its own
C38_Witness ==
    /\ progress(sim_jobs) = NumReps
    /\ max_progress(sim_jobs) = NumReps
    /\ \A idx \in Reps : redis.status[idx] = "finished"
    /\ fs # <<>>
    /\ \A i, j \in 1..NumReps :
          i # j => sim_jobs.results_ids[i] # sim_jobs.results_ids[j]

\* once save_dash_objs is off the deferred list every replication is
\* finished, every slot filled and every result there to be read
KpiReady(st, doc, files) ==
    st[SaveJob] \in {"queued", "started", "finished", "failed"} =>
       /\ \A idx \in Reps : st[idx] = "finished"
       /\ progress(doc) = max_progress(doc)
       /\ \A idx \in Reps : get_result(doc, files, idx) = Output(idx)
       /\ st[SaveJob] # "failed"

KpiStep ==
    /\ KpiReady(redis'.status, sim_jobs', fs')
    /\ sim_jobs.results_kpi_obj_id # 0 =>
          sim_jobs'.results_kpi_obj_id = sim_jobs.results_kpi_obj_id
    /\ sim_jobs'.results_kpi_obj_id # sim_jobs.results_kpi_obj_id =>
          /\ progress(sim_jobs) = NumReps
          /\ max_progress(sim_jobs) = NumReps
          /\ redis.status[SaveJob] = "started"
          /\ redis'.status[SaveJob] = "finished"

\* C39: save_dash_objs starts only when all the replications of the job
\* have completed: when it runs every slot of results_ids is filled and
\* get_result succeeds for every idx; results_kpi_obj_id is set once at
\* most, and only with progress equal to max_progress.
C39_KpiAfterAll == [][KpiStep]_vars

C39_Witness ==
    /\ redis.status[SaveJob] = "finished"
    /\ sim_jobs.results_kpi_obj_id # 0
    /\ fs[sim_jobs.results_kpi_obj_id].kind = "kpi"
    /\ Len(fs) = NumReps + 1

\* C40: a configuration the validator accepts lets the Model be built:
\* no replication of a submitted job comes to Model(job.config) with a
\* configuration that makes the construction raise, a PERT duration with
\* low = mode = high included.
C40_AcceptedConstructs ==
    \A w \in RqWorkers :
       (worker[w].j \in Reps /\ worker[w].i = 2) => ModelConstructs(cfg)

=============================================================================
